---- MODULE Spec2Model ----
(***************************************************************************)
(* Connection configuration and migration orchestration of                 *)
(* parsel-email/lib-go.                                                    *)
(*                                                                         *)
(* Strings are sequences of one-character strings, so that prefix tests,   *)
(* concatenation and joins are computed as the Go code computes them.      *)
(***************************************************************************)
EXTENDS Integers, Sequences, FiniteSets, TLC

VARIABLES
    dsnIn,      \* arguments of the latest formatDSN call (or NoCall)
    dsnOut,     \* its result
    prevIn,     \* arguments of the formatDSN call before it
    prevOut,    \* and the result of that call
    opened,     \* outcome of the Open call in progress at the caller (or NoCall)
    files,      \* migration file pairs in migrationsDir: [version, name]
    disk,       \* the files of migrationsDir: path -> body (a sequence of lines)
    dirExists,  \* whether migrationsDir exists
    clock,      \* time.Now().Unix()
    dbVersion,  \* version pointer of the schema_migrations table (NilVersion: no row)
    dbDirty,    \* dirty flag of the schema_migrations table
    schema,     \* versions whose forward body's effects are present in the database
    last,       \* what the latest run of the migrate command did
    now,        \* the time contexts measure their deadlines against
    parent,     \* the context a caller passes to WithContext
    scope,      \* what the latest WithContext call returned (or NoCall)
    op,         \* the latest query, exec or begin issued through the scope (or NoOp)
    store,      \* the database in the file the handle's path names
    txs,        \* each worker's open Transaction (or NoTx)
    hist,       \* what the workers committed, rolled back and read so far
    config,     \* the Config the caller holds (or NoCall)
    codec,      \* the blob at hand, the vector it came from and what deserialising it returned
    heap,       \* the pragma maps allocated so far: reference -> map
    held        \* the Configs a caller holds; Pragmas is a reference into heap

vars == <<dsnIn, dsnOut, prevIn, prevOut, opened,
          files, disk, dirExists, clock, dbVersion, dbDirty, schema, last,
          now, parent, scope, op, store, txs, hist, config, codec, heap, held>>

dsnVars  == <<dsnIn, dsnOut, prevIn, prevOut>>
openVars == <<opened>>
migVars  == <<files, disk, dirExists, clock, dbVersion, dbDirty, schema, last>>
ctxVars  == <<now, parent, scope, op>>
sqlVars  == <<store, txs, hist>>
cfgVars  == <<config>>
vecVars  == <<codec>>
refVars  == <<heap, held>>

(***************************************************************************)
(* Bounds                                                                  *)
(***************************************************************************)
MaxPragmas == 2     \* number of distinct pragma keys a Config may carry
MaxTime == 3        \* the clock runs from 1 to MaxTime
MaxNow == 3         \* context time runs from 1 to MaxNow
MaxConns == 3       \* the connections a handle can have open at once
MaxRows == 2        \* the rows the workers insert
MaxTimeout == 2     \* the largest timeout handed to WithContext
ParentDeadline == 2 \* the deadline of a parent context that has one
MaxCancelCalls == 2 \* how often a returned cancel function is called
MaxBytes == 5
MaxVector == 2
MaxHeld == 2

NoCall == [none |-> TRUE]

(***************************************************************************)
(* Strings                                                                 *)
(***************************************************************************)
HasPrefix(s, p) == Len(s) >= Len(p) /\ SubSeq(s, 1, Len(p)) = p

Contains(s, c) == \E i \in 1..Len(s) : s[i] = c

Count(s, c) == Cardinality({i \in 1..Len(s) : s[i] = c})

RECURSIVE Join(_, _)
Join(elems, sep) ==
    IF Len(elems) = 0 THEN <<>>
    ELSE IF Len(elems) = 1 THEN elems[1]
    ELSE elems[1] \o sep \o Join(Tail(elems), sep)

Memory == <<":", "m", "e", "m", "o", "r", "y", ":">>
FilePrefix == <<"f", "i", "l", "e", ":">>
LibsqlPrefix == <<"l", "i", "b", "s", "q", "l", ":", "/", "/">>

\* The paths a caller puts into Config.Path.
Paths ==
    { Memory,
      <<"d">>,
      FilePrefix \o <<"d">>,
      <<"d", "?", "m">>,
      FilePrefix \o <<"d", "?", "m">>,
      LibsqlPrefix \o <<"h">>,
      LibsqlPrefix \o <<"h", "?", "t">>,
      <<>> }

(***************************************************************************)
(* Pragmas: map[string]string.  A Go map is nil or a (possibly empty) map; *)
(* ranging over it visits the keys in an order the runtime chooses.        *)
(***************************************************************************)
KeyPool == << <<"a">>, <<"b">>, <<"c">>, <<"e">> >>
ValPool == << <<"1">>, <<"2">>, <<"3">>, <<"4">> >>

PragmaKeys == {KeyPool[i] : i \in 1..MaxPragmas}

PragmaValue(k) == ValPool[CHOOSE i \in 1..Len(KeyPool) : KeyPool[i] = k]

PragmaSets ==
    { [isNil |-> TRUE, kv |-> <<>>] } \cup
    { [isNil |-> FALSE, kv |-> [k \in K |-> PragmaValue(k)]] : K \in SUBSET PragmaKeys }

\* The orders in which `for key, value := range pragmas` may visit the map.
RangeOrders(pragmas) ==
    LET K == DOMAIN pragmas.kv
        n == Cardinality(K)
    IN  {o \in [1..n -> K] : \A i, j \in 1..n : i # j => o[i] # o[j]}

formatDSN_noLenCheck(path, pragmas, order) ==
    path \o <<"?">> \o
        Join([i \in 1..Len(order) |-> order[i] \o <<"=">> \o pragmas.kv[order[i]]], <<"&">>)

formatDSN(path, pragmas, order) ==
    LET params == [i \in 1..Len(order) |-> order[i] \o <<"=">> \o pragmas.kv[order[i]]]
    IN  IF Len(params) > 0
        THEN path \o <<"?">> \o Join(params, <<"&">>)
        ELSE path

(***************************************************************************)
(* Calls of formatDSN                                                      *)
(***************************************************************************)
FormatCall(path, pragmas, order) ==
    /\ prevIn' = dsnIn
    /\ prevOut' = dsnOut
    /\ dsnIn' = [path |-> path, pragmas |-> pragmas]
    /\ dsnOut' = formatDSN(path, pragmas, order)
    /\ UNCHANGED <<refVars, vecVars, cfgVars, openVars, migVars, ctxVars, sqlVars>>

(***************************************************************************)
(* Config and the pooled handle sql.DB                                     *)
(***************************************************************************)
Tokens == { <<>>, <<"s">> }

\* Pool settings in seconds; the first is the one DefaultConfig returns.
PoolSettings ==
    { [MaxOpenConns |-> 5, MaxIdleConns |-> 5, ConnMaxLifetime |-> 3600, ConnMaxIdleTime |-> 1800],
      [MaxOpenConns |-> 1, MaxIdleConns |-> 2, ConnMaxLifetime |-> 0, ConnMaxIdleTime |-> 0],
      [MaxOpenConns |-> 2, MaxIdleConns |-> 0, ConnMaxLifetime |-> 0, ConnMaxIdleTime |-> 0] }

Configs ==
    { [Path |-> p, AuthToken |-> t, MaxOpenConns |-> q.MaxOpenConns,
       MaxIdleConns |-> q.MaxIdleConns, ConnMaxLifetime |-> q.ConnMaxLifetime,
       ConnMaxIdleTime |-> q.ConnMaxIdleTime, Pragmas |-> g] :
      p \in Paths, t \in Tokens, q \in PoolSettings, g \in PragmaSets }

(***************************************************************************)
(* DefaultConfig and what a caller does with a Config                      *)
(***************************************************************************)
Minute == 60
Hour == 3600

\* DefaultPragmas(): the six pragmas for optimized performance.
DefaultPragmas ==
    LET pairs == { <<<<"j", "o", "u", "r", "n", "a", "l", "_", "m", "o", "d", "e">>,
                     <<"W", "A", "L">>>>,
                   <<<<"s", "y", "n", "c", "h", "r", "o", "n", "o", "u", "s">>,
                     <<"N", "O", "R", "M", "A", "L">>>>,
                   <<<<"f", "o", "r", "e", "i", "g", "n", "_", "k", "e", "y", "s">>,
                     <<"O", "N">>>>,
                   <<<<"c", "a", "c", "h", "e", "_", "s", "i", "z", "e">>,
                     <<"-", "2", "0", "0", "0">>>>,
                   <<<<"t", "e", "m", "p", "_", "s", "t", "o", "r", "e">>,
                     <<"M", "E", "M", "O", "R", "Y">>>>,
                   <<<<"m", "m", "a", "p", "_", "s", "i", "z", "e">>,
                     <<"2", "6", "8", "4", "3", "5", "4", "5", "6">>>> }
    IN  [isNil |-> FALSE,
         kv |-> [k \in {q[1] : q \in pairs} |-> (CHOOSE q \in pairs : q[1] = k)[2]]]

DefaultConfig_idleDefault ==
    [Path |-> Memory, AuthToken |-> <<>>, MaxOpenConns |-> 5, MaxIdleConns |-> 2,
     ConnMaxLifetime |-> Hour, ConnMaxIdleTime |-> 30 * Minute, Pragmas |-> DefaultPragmas]

DefaultConfig ==
    [Path |-> Memory, AuthToken |-> <<>>, MaxOpenConns |-> 5, MaxIdleConns |-> 5,
     ConnMaxLifetime |-> Hour, ConnMaxIdleTime |-> 30 * Minute, Pragmas |-> DefaultPragmas]

\* cfg := DefaultConfig()
DefaultConfigCall ==
    /\ config' = [value |-> DefaultConfig, fresh |-> TRUE]
    /\ UNCHANGED <<refVars, vecVars, dsnVars, openVars, migVars, ctxVars, sqlVars>>

\* The caller overwrites fields of the Config it holds.
Assign(value) ==
    /\ config # NoCall
    /\ config' = [value |-> value, fresh |-> FALSE]
    /\ UNCHANGED <<refVars, vecVars, dsnVars, openVars, migVars, ctxVars, sqlVars>>

AssignPath(path) == Assign([config.value EXCEPT !.Path = path])

AssignAuthToken(token) == Assign([config.value EXCEPT !.AuthToken = token])

AssignPool(q) ==
    Assign([config.value EXCEPT !.MaxOpenConns = q.MaxOpenConns,
                                !.MaxIdleConns = q.MaxIdleConns,
                                !.ConnMaxLifetime = q.ConnMaxLifetime,
                                !.ConnMaxIdleTime = q.ConnMaxIdleTime])

AssignPragmas(pragmas) == Assign([config.value EXCEPT !.Pragmas = pragmas])

\* What the driver does with a call: it succeeds, sql.Open/NewConnector
\* fails, or the handle is created and Ping fails.
DriverOutcomes == {"ok", "openErr", "pingErr"}

NoHandle == [none |-> TRUE]
NoPool == [none |-> TRUE]

\* Errors: a cause, possibly wrapped by fmt.Errorf("<doing>: %w", err).
NoErr == [doing |-> "", cause |-> ""]
Wrap_dropsCause(doing, cause) == [doing |-> doing, cause |-> ""]

Wrap(doing, cause) == [doing |-> doing, cause |-> cause]

\* The connections a handle can hold, and a database nobody has written to.
ConnIds == 1..MaxConns
Rows == 1..MaxRows
NoTable == [table |-> FALSE, rows |-> {}]
ClosedConn == [state |-> "closed", mem |-> NoTable]

\* A fresh *sql.DB: database/sql's own defaults, not pinged, not closed, no
\* connection yet.  A connection to ":memory:" has a database of its own.
NewHandle ==
    [pool |-> [MaxOpenConns |-> 0, MaxIdleConns |-> 2, ConnMaxLifetime |-> 0, ConnMaxIdleTime |-> 0],
     poolAtPing |-> NoPool, pinged |-> FALSE, closed |-> FALSE,
     conns |-> [c \in ConnIds |-> ClosedConn]]

\* The four setters of sql.DB.  A negative limit or duration counts as 0;
\* max idle is kept as the number of idle connections the handle retains: 0
\* when n <= 0, and never more than a positive max open.
SetMaxOpenConns(h, n) ==
    LET open == IF n < 0 THEN 0 ELSE n
    IN  [h EXCEPT !.pool.MaxOpenConns = open,
                  !.pool.MaxIdleConns = IF open > 0 /\ @ > open THEN open ELSE @]

SetMaxIdleConns(h, n) ==
    [h EXCEPT !.pool.MaxIdleConns =
        IF n <= 0 THEN 0
        ELSE IF h.pool.MaxOpenConns > 0 /\ n > h.pool.MaxOpenConns THEN h.pool.MaxOpenConns
        ELSE n]

SetConnMaxLifetime(h, d) == [h EXCEPT !.pool.ConnMaxLifetime = IF d < 0 THEN 0 ELSE d]

SetConnMaxIdleTime(h, d) == [h EXCEPT !.pool.ConnMaxIdleTime = IF d < 0 THEN 0 ELSE d]

SetPool_noMaxIdle(h, cfg) ==
    SetConnMaxIdleTime(
        SetConnMaxLifetime(
            SetMaxOpenConns(h, cfg.MaxOpenConns),
            cfg.ConnMaxLifetime),
        cfg.ConnMaxIdleTime)

\* "Configure connection pool": the four setters in the order of the code.
SetPool(h, cfg) ==
    SetConnMaxIdleTime(
        SetConnMaxLifetime(
            SetMaxIdleConns(SetMaxOpenConns(h, cfg.MaxOpenConns), cfg.MaxIdleConns),
            cfg.ConnMaxLifetime),
        cfg.ConnMaxIdleTime)

\* database/sql's pool: at most MaxOpenConns connections (no limit when
\* <= 0), at most MaxIdleConns of them kept idle (none when <= 0, never more
\* than MaxOpenConns).
EffMaxOpen(h) ==
    IF h.pool.MaxOpenConns <= 0 \/ h.pool.MaxOpenConns > MaxConns
    THEN MaxConns ELSE h.pool.MaxOpenConns

EffMaxIdle(h) ==
    IF h.pool.MaxIdleConns <= 0 THEN 0
    ELSE IF h.pool.MaxOpenConns > 0 /\ h.pool.MaxIdleConns > h.pool.MaxOpenConns
    THEN h.pool.MaxOpenConns ELSE h.pool.MaxIdleConns

OpenConns(h) == {c \in ConnIds : h.conns[c].state # "closed"}
IdleConns(h) == {c \in ConnIds : h.conns[c].state = "idle"}
NumOpen(h) == Cardinality(OpenConns(h))

\* The connections an operation can get: an idle one when there is any,
\* otherwise a new one while the pool has room.
Free(h) ==
    IF h.closed THEN {}
    ELSE IF IdleConns(h) # {} THEN IdleConns(h)
    ELSE IF NumOpen(h) < EffMaxOpen(h)
    THEN {CHOOSE c \in ConnIds \ OpenConns(h) : \A d \in ConnIds \ OpenConns(h) : c <= d}
    ELSE {}

Take(h, c) == [h EXCEPT !.conns[c].state = "busy"]

\* A connection is given back: kept idle while the pool is open and has room
\* for it, closed otherwise.
Put(h, c) ==
    IF h.closed \/ Cardinality(IdleConns(h)) >= EffMaxIdle(h)
    THEN [h EXCEPT !.conns[c] = ClosedConn]
    ELSE [h EXCEPT !.conns[c].state = "idle"]

\* db.Ping() takes a connection, pings and gives it back.
Ping(h) ==
    LET c == CHOOSE c \in Free(h) : TRUE
    IN  Put(Take([h EXCEPT !.pinged = TRUE, !.poolAtPing = h.pool], c), c)

\* db.Ping() fails: no connection could be made.
PingFailed(h) == [h EXCEPT !.pinged = TRUE, !.poolAtPing = h.pool]

\* db.Close() closes the idle connections; the busy ones are closed when
\* they are given back.
Close(h) ==
    [h EXCEPT !.closed = TRUE,
              !.conns = [c \in ConnIds |-> IF h.conns[c].state = "idle" THEN ClosedConn
                                           ELSE h.conns[c]]]

WithAuthToken(token) == [authToken |-> token]
NilOption == [nilOption |-> TRUE]

\* DB.Close(): db.DB.Close(), its error wrapped.  Closing the connections of
\* a handle does not fail, and closing a closed handle returns nil.
sqlClose(h) == [handle |-> Close(h), err |-> ""]

DBClose_leaksConns(h) ==
    LET r == [handle |-> [h EXCEPT !.closed = TRUE], err |-> ""]
    IN  [handle |-> r.handle,
         err |-> IF r.err # "" THEN Wrap("closing database", r.err) ELSE NoErr]

DBClose(h) ==
    LET r == sqlClose(h)
    IN  [handle |-> r.handle,
         err |-> IF r.err # "" THEN Wrap("closing database", r.err) ELSE NoErr]

NotCalled == [doing |-> "", cause |-> "not called"]

\* The result of one Open call: what was handed to the driver, the handle
\* the driver created (if any) and the (handle, error) pair returned.
DriverError(drv) ==
    IF drv = "openErr" THEN "unable to open database"
    ELSE IF drv = "pingErr" THEN "unable to ping database"
    ELSE ""

Outcome(variant, cfg, arg, h, ok, err, drv) ==
    [variant |-> variant, cfg |-> cfg, arg |-> arg, handle |-> h, drv |-> drv,
     ret |-> [handle |-> ok, err |-> err,
              wrapped |-> IF err = "" THEN NoErr ELSE Wrap(err, DriverError(drv))],
     closeRet |-> NotCalled]

\* "file:" is put in front of every dsn but ":memory:" and those that have it.
WithFilePrefix(dsn) ==
    IF dsn # Memory /\ ~HasPrefix(dsn, FilePrefix) THEN FilePrefix \o dsn ELSE dsn

(***************************************************************************)
(* database.Open over libsql-client-go (src/database/database.go)          *)
(***************************************************************************)
Open_tokenEverywhere(cfg, order, drv) ==
    LET remote == HasPrefix(cfg.Path, LibsqlPrefix)
        connOpts == IF cfg.AuthToken # <<>> THEN <<WithAuthToken(cfg.AuthToken)>> ELSE <<>>
        arg == IF remote
               THEN [driver |-> "libsql", branch |-> "remote", dsn |-> cfg.Path, opts |-> connOpts]
               ELSE [driver |-> "libsql", branch |-> "local",
                     dsn |-> formatDSN(cfg.Path, cfg.Pragmas, order), opts |-> connOpts]
        h == Ping(SetPool(NewHandle, cfg))
    IN  IF drv = "openErr"
        THEN Outcome("database", cfg, arg, NoHandle, FALSE,
                     IF remote THEN "creating libSQL connector for remote database"
                               ELSE "creating libSQL connector for local database", drv)
        ELSE IF drv = "pingErr"
        THEN Outcome("database", cfg, arg, Close(PingFailed(SetPool(NewHandle, cfg))), FALSE,
                     "pinging database", drv)
        ELSE Outcome("database", cfg, arg, h, TRUE, "", drv)

Open(cfg, order, drv) ==
    LET remote == HasPrefix(cfg.Path, LibsqlPrefix)
        connOpts == IF cfg.AuthToken # <<>> THEN <<WithAuthToken(cfg.AuthToken)>> ELSE <<>>
        arg == IF remote
               THEN [driver |-> "libsql", branch |-> "remote", dsn |-> cfg.Path, opts |-> connOpts]
               ELSE [driver |-> "libsql", branch |-> "local",
                     dsn |-> formatDSN(cfg.Path, cfg.Pragmas, order), opts |-> <<NilOption>>]
        h == Ping(SetPool(NewHandle, cfg))
    IN  IF drv = "openErr"
        THEN Outcome("database", cfg, arg, NoHandle, FALSE,
                     IF remote THEN "creating libSQL connector for remote database"
                               ELSE "creating libSQL connector for local database", drv)
        ELSE IF drv = "pingErr"
        THEN Outcome("database", cfg, arg, Close(PingFailed(SetPool(NewHandle, cfg))), FALSE,
                     "pinging database", drv)
        ELSE Outcome("database", cfg, arg, h, TRUE, "", drv)

(***************************************************************************)
(* sqlite3.Open (src/database/sqlite3/database.go)                         *)
(***************************************************************************)
Open_sqlite3(cfg, order, drv) ==
    LET arg == [driver |-> "sqlite3", branch |-> "local",
                dsn |-> WithFilePrefix(formatDSN(cfg.Path, cfg.Pragmas, order)), opts |-> <<>>]
        h == Ping(SetPool(NewHandle, cfg))
    IN  IF drv = "openErr"
        THEN Outcome("sqlite3", cfg, arg, NoHandle, FALSE, "opening database", drv)
        ELSE IF drv = "pingErr"
        THEN Outcome("sqlite3", cfg, arg, Close(PingFailed(SetPool(NewHandle, cfg))), FALSE,
                     "pinging database", drv)
        ELSE Outcome("sqlite3", cfg, arg, h, TRUE, "", drv)

(***************************************************************************)
(* sqlite3.Open with the fts5/json parameters (database_test.go:1248)      *)
(***************************************************************************)
Open_sqlite3_fts5(cfg, order, drv) ==
    LET dsn == WithFilePrefix(formatDSN(cfg.Path, cfg.Pragmas, order))
        ext == <<"_", "f", "t", "s", "5", "=", "1", "&", "_", "j", "s", "o", "n", "=", "1">>
        arg == [driver |-> "sqlite3", branch |-> "local",
                dsn |-> IF Contains(dsn, "?") THEN dsn \o <<"&">> \o ext
                                              ELSE dsn \o <<"?">> \o ext,
                opts |-> <<>>]
        h == Ping(SetPool(NewHandle, cfg))
    IN  IF drv = "openErr"
        THEN Outcome("sqlite3_fts5", cfg, arg, NoHandle, FALSE, "opening database", drv)
        ELSE IF drv = "pingErr"
        THEN Outcome("sqlite3_fts5", cfg, arg, Close(PingFailed(SetPool(NewHandle, cfg))), FALSE,
                     "pinging database", drv)
        ELSE Outcome("sqlite3_fts5", cfg, arg, h, TRUE, "", drv)

(***************************************************************************)
(* libsql.Open over go-libsql (database_test.go:1359)                      *)
(***************************************************************************)
Open_libsql(cfg, order, drv) ==
    LET arg == [driver |-> "libsql", branch |-> "local",
                dsn |-> WithFilePrefix(formatDSN(cfg.Path, cfg.Pragmas, order)), opts |-> <<>>]
        h == Ping(SetPool(NewHandle, cfg))
    IN  IF drv = "openErr"
        THEN Outcome("libsql", cfg, arg, NoHandle, FALSE, "opening database", drv)
        ELSE IF drv = "pingErr"
        THEN Outcome("libsql", cfg, arg, Close(PingFailed(SetPool(NewHandle, cfg))), FALSE,
                     "pinging database", drv)
        ELSE Outcome("libsql", cfg, arg, h, TRUE, "", drv)

(***************************************************************************)
(* database.Open over go-sqlite3 (src/unnamed/part_002)                    *)
(***************************************************************************)
Open_sqlite(cfg, order, drv) ==
    LET arg == [driver |-> "sqlite3", branch |-> "local",
                dsn |-> formatDSN(cfg.Path, cfg.Pragmas, order), opts |-> <<>>]
        h == Ping(SetPool(NewHandle, cfg))
    IN  IF drv = "openErr"
        THEN Outcome("sqlite", cfg, arg, NoHandle, FALSE, "opening database", drv)
        ELSE IF drv = "pingErr"
        THEN Outcome("sqlite", cfg, arg, PingFailed(SetPool(NewHandle, cfg)), FALSE,
                     "pinging database", drv)
        ELSE Outcome("sqlite", cfg, arg, h, TRUE, "", drv)

(***************************************************************************)
(* A caller opens a handle, closes it when it got one, and moves on.       *)
(***************************************************************************)
OpenCall(cfg, order, drv) ==
    /\ opened = NoCall
    /\ opened' = Open(cfg, order, drv)
    /\ UNCHANGED <<refVars, vecVars, cfgVars, dsnVars, migVars, ctxVars, sqlVars>>

OpenCall_sqlite3(cfg, order, drv) ==
    /\ opened = NoCall
    /\ opened' = Open_sqlite3(cfg, order, drv)
    /\ UNCHANGED <<refVars, vecVars, cfgVars, dsnVars, migVars, ctxVars, sqlVars>>

OpenCall_sqlite3_fts5(cfg, order, drv) ==
    /\ opened = NoCall
    /\ opened' = Open_sqlite3_fts5(cfg, order, drv)
    /\ UNCHANGED <<refVars, vecVars, cfgVars, dsnVars, migVars, ctxVars, sqlVars>>

OpenCall_libsql(cfg, order, drv) ==
    /\ opened = NoCall
    /\ opened' = Open_libsql(cfg, order, drv)
    /\ UNCHANGED <<refVars, vecVars, cfgVars, dsnVars, migVars, ctxVars, sqlVars>>

OpenCall_sqlite(cfg, order, drv) ==
    /\ opened = NoCall
    /\ opened' = Open_sqlite(cfg, order, drv)
    /\ UNCHANGED <<refVars, vecVars, cfgVars, dsnVars, migVars, ctxVars, sqlVars>>

\* DB.Close on the handle Open returned.
CloseCall ==
    /\ opened # NoCall
    /\ opened.ret.handle
    /\ ~opened.handle.closed
    /\ opened' = [opened EXCEPT !.handle = DBClose(opened.handle).handle,
                                !.closeRet = DBClose(opened.handle).err]
    /\ hist' = [hist EXCEPT !.closed = TRUE,
                            !.atClose = IF hist.closed THEN @ ELSE hist.committed]
    /\ UNCHANGED <<store, txs>>
    /\ UNCHANGED <<refVars, vecVars, cfgVars, dsnVars, migVars, ctxVars>>

\* The caller drops the result of the call.
Forget ==
    /\ opened # NoCall
    /\ opened' = NoCall
    /\ UNCHANGED <<refVars, vecVars, cfgVars, dsnVars, migVars, ctxVars, sqlVars>>

(***************************************************************************)
(* The migrate command (src/unnamed/part_001) over golang-migrate with the *)
(* file source and the sqlite database driver.                             *)
(***************************************************************************)
NilVersion == -1

Names == {"a", "b"}

Versions(fs) == {f.version : f \in fs}

Max(S) == CHOOSE v \in S : \A w \in S : w <= v
Min(S) == CHOOSE v \in S : \A w \in S : v <= w

RECURSIVE Ascending(_)
Ascending(S) == IF S = {} THEN <<>> ELSE <<Min(S)>> \o Ascending(S \ {Min(S)})

RECURSIVE Descending(_)
Descending(S) == IF S = {} THEN <<>> ELSE <<Max(S)>> \o Descending(S \ {Max(S)})

Range(q) == {q[i] : i \in 1..Len(q)}

\* The file source refuses a directory that does not exist or that holds
\* two migrations of the same version.
SourceOk(fs, dir) ==
    /\ dir
    /\ \A f, g \in fs : f.version = g.version => f.name = g.name

\* State of one run of a migrate function: the schema_migrations row, the
\* schema, the bodies attempted, committed and rolled back, and the error.
RunState(v, d, sch) ==
    [version |-> v, dirty |-> d, schema |-> sch,
     attempts |-> <<>>, committed |-> <<>>, rolledBack |-> <<>>, err |-> ""]

SetVersion(st, v, d) == [st EXCEPT !.version = v, !.dirty = d]

Effect(sch, migr) ==
    IF migr.dir = "up" THEN sch \cup {migr.version} ELSE sch \ {migr.version}

\* The sqlite driver runs a body inside a transaction: commit on success,
\* rollback when a statement fails.
executeQuery(st, migr, fails) ==
    IF fails
    THEN [st EXCEPT !.attempts = Append(@, migr.version),
                    !.rolledBack = Append(@, migr.version),
                    !.err = "migration failed"]
    ELSE [st EXCEPT !.attempts = Append(@, migr.version),
                    !.schema = Effect(st.schema, migr),
                    !.committed = Append(@, migr.version)]

\* Each migration: mark the target version dirty, run the body, mark the
\* target version clean; the first error ends the run.
RECURSIVE runMigrations(_, _, _)
runMigrations(migrs, st, failAt) ==
    IF Len(migrs) = 0 THEN st
    ELSE LET migr == Head(migrs)
             ran == executeQuery(SetVersion(st, migr.target, TRUE), migr, migr.version = failAt)
         IN  IF ran.err # "" THEN ran
             ELSE runMigrations(Tail(migrs), SetVersion(ran, migr.target, FALSE), failAt)

UpMigrations(pending) ==
    [i \in 1..Len(pending) |-> [version |-> pending[i], target |-> pending[i], dir |-> "up"]]

DownMigrations(applied) ==
    [i \in 1..Len(applied) |->
        [version |-> applied[i],
         target |-> IF i < Len(applied) THEN applied[i + 1] ELSE NilVersion,
         dir |-> "down"]]

Up_fromFirst(fs, st, failAt) ==
    IF st.dirty THEN [st EXCEPT !.err = "ErrDirty"]
    ELSE IF st.version >= 0 /\ st.version \notin Versions(fs)
    THEN [st EXCEPT !.err = "ErrNotExist"]
    ELSE IF st.version = NilVersion /\ Versions(fs) = {}
    THEN [st EXCEPT !.err = "ErrNotExist"]
    ELSE LET pending == Ascending(Versions(fs))
         IN  IF {v \in Versions(fs) : v > st.version} = {} THEN [st EXCEPT !.err = "ErrNoChange"]
             ELSE runMigrations(UpMigrations(pending), st, failAt)

\* m.Up(): every migration after the current version, in ascending order.
Up(fs, st, failAt) ==
    IF st.dirty THEN [st EXCEPT !.err = "ErrDirty"]
    ELSE IF st.version >= 0 /\ st.version \notin Versions(fs)
    THEN [st EXCEPT !.err = "ErrNotExist"]
    ELSE IF st.version = NilVersion /\ Versions(fs) = {}
    THEN [st EXCEPT !.err = "ErrNotExist"]
    ELSE LET pending == Ascending({v \in Versions(fs) : v > st.version})
         IN  IF Len(pending) = 0 THEN [st EXCEPT !.err = "ErrNoChange"]
             ELSE runMigrations(UpMigrations(pending), st, failAt)

\* m.Down(): every migration from the current version down to the first.
Down(fs, st, failAt) ==
    IF st.dirty THEN [st EXCEPT !.err = "ErrDirty"]
    ELSE IF st.version >= 0 /\ st.version \notin Versions(fs)
    THEN [st EXCEPT !.err = "ErrNotExist"]
    ELSE IF st.version = NilVersion THEN [st EXCEPT !.err = "ErrNoChange"]
    ELSE runMigrations(
             DownMigrations(Descending({v \in Versions(fs) : v <= st.version})), st, failAt)

NoPrev == [cmd |-> "", outcome |-> "", msg |-> "", rolledBack |-> <<>>, version |-> 0]

PrevOf(l) ==
    IF l = NoCall THEN NoPrev
    ELSE [cmd |-> l.cmd, outcome |-> l.outcome, msg |-> l.msg, rolledBack |-> l.rolledBack,
          version |-> l.version]

Pre ==
    [version |-> dbVersion, dirty |-> dbDirty, schema |-> schema, files |-> files,
     disk |-> disk, clock |-> clock]

Report(cmd, outcome, msg, st, ver, dirty) ==
    [cmd |-> cmd, outcome |-> outcome, msg |-> msg,
     attempts |-> st.attempts, committed |-> st.committed, rolledBack |-> st.rolledBack,
     version |-> ver, dirty |-> dirty, dbOpened |-> TRUE, pre |-> Pre, prev |-> PrevOf(last)]

\* The function main hands to runMigration: m.Up() for "up", m.Down() for "down".
migrateFn(cmd, fs, st, failAt) ==
    IF cmd = "up" THEN Up(fs, st, failAt) ELSE Down(fs, st, failAt)

runMigration_noChangeIsFatal(cmd, connOk, failAt) ==
    LET st0 == RunState(dbVersion, dbDirty, schema)
        st == migrateFn(cmd, files, st0, failAt)
    IN  IF ~connOk
        THEN /\ last' = Report(cmd, "fatal", "Failed to connect to database", st0, 0, FALSE)
             /\ UNCHANGED <<dbVersion, dbDirty, schema>>
        ELSE IF ~SourceOk(files, dirExists)
        THEN /\ last' = Report(cmd, "fatal", "Failed to create migration instance", st0, 0, FALSE)
             /\ UNCHANGED <<dbVersion, dbDirty, schema>>
        ELSE /\ dbVersion' = st.version
             /\ dbDirty' = st.dirty
             /\ schema' = st.schema
             /\ last' = IF st.err # ""
                        THEN Report(cmd, "fatal", "Migration failed", st, 0, FALSE)
                        ELSE Report(cmd, "success", "Migration successful", st, 0, FALSE)

runMigration_errorIgnored(cmd, connOk, failAt) ==
    LET st0 == RunState(dbVersion, dbDirty, schema)
        st == migrateFn(cmd, files, st0, failAt)
    IN  IF ~connOk
        THEN /\ last' = Report(cmd, "fatal", "Failed to connect to database", st0, 0, FALSE)
             /\ UNCHANGED <<dbVersion, dbDirty, schema>>
        ELSE IF ~SourceOk(files, dirExists)
        THEN /\ last' = Report(cmd, "fatal", "Failed to create migration instance", st0, 0, FALSE)
             /\ UNCHANGED <<dbVersion, dbDirty, schema>>
        ELSE /\ dbVersion' = st.version
             /\ dbDirty' = st.dirty
             /\ schema' = st.schema
             /\ last' = IF st.err = "ErrNoChange"
                        THEN Report(cmd, "nochange", "No migration needed", st, 0, FALSE)
                        ELSE Report(cmd, "success", "Migration successful", st, 0, FALSE)

\* runMigration: connect, build the migrate instance, run migrateFn.
runMigration(cmd, connOk, failAt) ==
    LET st0 == RunState(dbVersion, dbDirty, schema)
        st == migrateFn(cmd, files, st0, failAt)
    IN  IF ~connOk
        THEN /\ last' = Report(cmd, "fatal", "Failed to connect to database", st0, 0, FALSE)
             /\ UNCHANGED <<dbVersion, dbDirty, schema>>
        ELSE IF ~SourceOk(files, dirExists)
        THEN /\ last' = Report(cmd, "fatal", "Failed to create migration instance", st0, 0, FALSE)
             /\ UNCHANGED <<dbVersion, dbDirty, schema>>
        ELSE /\ dbVersion' = st.version
             /\ dbDirty' = st.dirty
             /\ schema' = st.schema
             /\ last' = IF st.err = "ErrNoChange"
                        THEN Report(cmd, "nochange", "No migration needed", st, 0, FALSE)
                        ELSE IF st.err # ""
                        THEN Report(cmd, "fatal", "Migration failed", st, 0, FALSE)
                        ELSE Report(cmd, "success", "Migration successful", st, 0, FALSE)

\* Paths and bodies of the migration files.
migrationsDir == <<".", "/", "d", "b", "/", "m", "i", "g", "r", "a", "t", "i", "o", "n", "s">>

Digits == <<"0", "1", "2", "3", "4", "5", "6", "7", "8", "9">>

\* fmt's %d of a non-negative integer.
RECURSIVE Itoa(_)
Itoa(n) == IF n < 10 THEN <<Digits[n + 1]>> ELSE Itoa(n \div 10) \o <<Digits[(n % 10) + 1]>>

\* A migration name as the characters of the command-line argument.
NameChars(name) == <<name>>

\* filepath.Join cleans its result: a leading "./" is dropped.
JoinPath(dir, file) ==
    LET joined == dir \o <<"/">> \o file
    IN  IF HasPrefix(joined, <<".", "/">>) THEN SubSeq(joined, 3, Len(joined)) ELSE joined

\* filepath.Join(migrationsDir, fmt.Sprintf("%d_%s.<direction>.sql", timestamp, name))
MigrationPath(timestamp, name, direction) ==
    JoinPath(migrationsDir,
             Itoa(timestamp) \o <<"_">> \o NameChars(name) \o <<".">> \o direction
                 \o <<".", "s", "q", "l">>)

UpSuffix == <<"u", "p">>
DownSuffix == <<"d", "o", "w", "n">>

\* "-- Migration Up\n" and "-- Migration Down\n": one comment line each.
UpTemplate == << <<"-", "-", " ", "M", "i", "g", "r", "a", "t", "i", "o", "n", " ", "U", "p">> >>
DownTemplate ==
    << <<"-", "-", " ", "M", "i", "g", "r", "a", "t", "i", "o", "n", " ", "D", "o", "w", "n">> >>

\* os.WriteFile(path, body): creates the file or replaces its content.
WriteFile(d, path, body) ==
    [p \in DOMAIN d \cup {path} |-> IF p = path THEN body ELSE d[p]]

\* What the file system does to createMigration: nothing fails, MkdirAll
\* fails, or writing the up file fails.
FsOutcomes == {"ok", "mkdirErr", "writeErr"}

CreateReport(outcome, msg) ==
    [Report("new", outcome, msg, RunState(0, FALSE, {}), clock, FALSE) EXCEPT !.dbOpened = FALSE]

createMigration_downOverUp(name, fsErr) ==
    LET upMigration == MigrationPath(clock, name, UpSuffix)
        downMigration == MigrationPath(clock, name, UpSuffix)
    IN  /\ IF fsErr = "mkdirErr"
           THEN /\ last' = CreateReport("fatal", "Failed to create migrations directory")
                /\ UNCHANGED <<dirExists, files, disk>>
           ELSE IF fsErr = "writeErr"
           THEN /\ last' = CreateReport("fatal", "Failed to create up migration file")
                /\ dirExists' = TRUE
                /\ UNCHANGED <<files, disk>>
           ELSE /\ dirExists' = TRUE
                /\ disk' = WriteFile(WriteFile(disk, upMigration, UpTemplate),
                                     downMigration, DownTemplate)
                /\ files' = files \cup {[version |-> clock, name |-> name]}
                /\ last' = CreateReport("created", "Created migration files")
        /\ UNCHANGED <<clock, dbVersion, dbDirty, schema>>
        /\ UNCHANGED <<refVars, vecVars, cfgVars, dsnVars, openVars, ctxVars, sqlVars>>

\* migrate new <name>
createMigration(name, fsErr) ==
    LET upMigration == MigrationPath(clock, name, UpSuffix)
        downMigration == MigrationPath(clock, name, DownSuffix)
    IN  /\ IF fsErr = "mkdirErr"
           THEN /\ last' = CreateReport("fatal", "Failed to create migrations directory")
                /\ UNCHANGED <<dirExists, files, disk>>
           ELSE IF fsErr = "writeErr"
           THEN /\ last' = CreateReport("fatal", "Failed to create up migration file")
                /\ dirExists' = TRUE
                /\ UNCHANGED <<files, disk>>
           ELSE /\ dirExists' = TRUE
                /\ disk' = WriteFile(WriteFile(disk, upMigration, UpTemplate),
                                     downMigration, DownTemplate)
                /\ files' = files \cup {[version |-> clock, name |-> name]}
                /\ last' = CreateReport("created", "Created migration files")
        /\ UNCHANGED <<clock, dbVersion, dbDirty, schema>>
        /\ UNCHANGED <<refVars, vecVars, cfgVars, dsnVars, openVars, ctxVars, sqlVars>>

\* migrate up
CmdUp(connOk, failAt) ==
    /\ runMigration("up", connOk, failAt)
    /\ UNCHANGED <<files, disk, dirExists, clock>>
    /\ UNCHANGED <<refVars, vecVars, cfgVars, dsnVars, openVars, ctxVars, sqlVars>>

\* migrate down
CmdDown(connOk, failAt) ==
    /\ runMigration("down", connOk, failAt)
    /\ UNCHANGED <<files, disk, dirExists, clock>>
    /\ UNCHANGED <<refVars, vecVars, cfgVars, dsnVars, openVars, ctxVars, sqlVars>>

getMigrationVersion_nilIsFatal(connOk) ==
    /\ LET st0 == RunState(dbVersion, dbDirty, schema)
       IN  last' =
             IF ~connOk
             THEN Report("version", "fatal", "Failed to connect to database", st0, 0, FALSE)
             ELSE IF ~SourceOk(files, dirExists)
             THEN Report("version", "fatal", "Failed to create migration instance", st0, 0, FALSE)
             ELSE IF dbVersion = NilVersion
             THEN Report("version", "fatal", "Failed to get migration version", st0, 0, FALSE)
             ELSE Report("version", "reported", "Current migration version", st0, dbVersion, dbDirty)
    /\ UNCHANGED <<files, disk, dirExists, clock, dbVersion, dbDirty, schema>>
    /\ UNCHANGED <<refVars, vecVars, cfgVars, dsnVars, openVars, ctxVars, sqlVars>>

\* migrate version
getMigrationVersion(connOk) ==
    /\ LET st0 == RunState(dbVersion, dbDirty, schema)
       IN  last' =
             IF ~connOk
             THEN Report("version", "fatal", "Failed to connect to database", st0, 0, FALSE)
             ELSE IF ~SourceOk(files, dirExists)
             THEN Report("version", "fatal", "Failed to create migration instance", st0, 0, FALSE)
             ELSE IF dbVersion = NilVersion
             THEN Report("version", "nilversion", "No migrations applied yet", st0, 0, FALSE)
             ELSE Report("version", "reported", "Current migration version", st0, dbVersion, dbDirty)
    /\ UNCHANGED <<files, disk, dirExists, clock, dbVersion, dbDirty, schema>>
    /\ UNCHANGED <<refVars, vecVars, cfgVars, dsnVars, openVars, ctxVars, sqlVars>>

\* Command lines handed to main (os.Args[1:]): none, one word, "new" with a
\* name, and three words.
CommandLines ==
    {<<>>} \cup {<<w>> : w \in {"new", "up", "down", "version", "status"}}
        \cup {<<"new", n>> : n \in Names}
        \cup {<<w, "a", "b">> : w \in {"new", "status"}}

\* The command lines on which main calls no command function: no command,
\* "new" without exactly one name, a word that is no command.
Rejected(args) ==
    IF Len(args) < 1 THEN TRUE
    ELSE IF args[1] = "new" THEN Len(args) # 2
    ELSE args[1] \notin {"new", "up", "down", "version"}

main_defaultLogsOnly(args) ==
    /\ Rejected(args)
    /\ last' = [(IF Len(args) < 1
                 THEN Report("", "fatal", "Command is required: new, up, down, version",
                             RunState(0, FALSE, {}), 0, FALSE)
                 ELSE IF args[1] = "new"
                 THEN Report("new", "fatal", "Migration name is required",
                             RunState(0, FALSE, {}), 0, FALSE)
                 ELSE Report(args[1], "logged", "Unknown command",
                             RunState(0, FALSE, {}), 0, FALSE))
                EXCEPT !.dbOpened = FALSE]
    /\ UNCHANGED <<files, disk, dirExists, clock, dbVersion, dbDirty, schema>>
    /\ UNCHANGED <<refVars, vecVars, cfgVars, dsnVars, openVars, ctxVars, sqlVars>>

\* main on a command line it rejects itself; the command lines it accepts
\* run createMigration, CmdUp, CmdDown or getMigrationVersion.
main(args) ==
    /\ Rejected(args)
    /\ last' = [(IF Len(args) < 1
                 THEN Report("", "fatal", "Command is required: new, up, down, version",
                             RunState(0, FALSE, {}), 0, FALSE)
                 ELSE IF args[1] = "new"
                 THEN Report("new", "fatal", "Migration name is required",
                             RunState(0, FALSE, {}), 0, FALSE)
                 ELSE Report(args[1], "fatal", "Unknown command",
                             RunState(0, FALSE, {}), 0, FALSE))
                EXCEPT !.dbOpened = FALSE]
    /\ UNCHANGED <<files, disk, dirExists, clock, dbVersion, dbDirty, schema>>
    /\ UNCHANGED <<refVars, vecVars, cfgVars, dsnVars, openVars, ctxVars, sqlVars>>

\* The exit status of the process: log.Fatal exits with 1, a return from
\* main with 0.
ExitCode(report) == IF report.outcome = "fatal" THEN 1 ELSE 0

\* A developer adds a statement to a migration file that holds none yet.
EditMigration(path) ==
    LET statement == <<"S", "E", "L", "E", "C", "T", " ", "1", ";">>
    IN  /\ path \in DOMAIN disk
        /\ statement \notin {disk[path][i] : i \in 1..Len(disk[path])}
        /\ disk' = [disk EXCEPT ![path] = Append(@, statement)]
    /\ UNCHANGED <<files, dirExists, clock, dbVersion, dbDirty, schema, last>>
    /\ UNCHANGED <<refVars, vecVars, cfgVars, dsnVars, openVars, ctxVars, sqlVars>>

\* A second passes.
Tick ==
    /\ clock < MaxTime
    /\ clock' = clock + 1
    /\ UNCHANGED <<files, disk, dirExists, dbVersion, dbDirty, schema, last>>
    /\ UNCHANGED <<refVars, vecVars, cfgVars, dsnVars, openVars, ctxVars, sqlVars>>

(***************************************************************************)
(* Contexts: WithContext and the operations issued through its scope       *)
(***************************************************************************)
NoDeadline == 0

Canceled == "context canceled"
DeadlineExceeded == "context deadline exceeded"

\* context.Background(), a parent made by context.WithCancel and one made
\* by context.WithDeadline.
Background == [kind |-> "background", deadline |-> NoDeadline, err |-> "", cancelCalled |-> FALSE]

Parents ==
    { Background,
      [kind |-> "cancel", deadline |-> NoDeadline, err |-> "", cancelCalled |-> FALSE],
      [kind |-> "deadline", deadline |-> ParentDeadline, err |-> "", cancelCalled |-> FALSE] }

Timeouts == -1..MaxTimeout

\* context.WithTimeout(ctx, d) at time t: a child whose deadline is the
\* earlier of t+d and the parent's; it is done at once when the parent is
\* done or the deadline has passed.
WithTimeout(ctx, d, t) ==
    LET dl == IF ctx.deadline # NoDeadline /\ ctx.deadline < t + d THEN ctx.deadline ELSE t + d
    IN  [timeout |-> d, at |-> t, isParent |-> FALSE, deadline |-> dl,
         err |-> IF ctx.err # "" THEN ctx.err
                 ELSE IF dl <= t THEN DeadlineExceeded ELSE "",
         cancel |-> "cancel", cancelCalls |-> 0]

WithContext_alwaysTimeout(ctx, timeout, t) == WithTimeout(ctx, timeout, t)

\* WithContext(ctx, timeout): the child of WithTimeout for timeout > 0,
\* otherwise ctx itself and func() {}.
WithContext(ctx, timeout, t) ==
    IF timeout > 0
    THEN WithTimeout(ctx, timeout, t)
    ELSE [timeout |-> timeout, at |-> t, isParent |-> TRUE, deadline |-> ctx.deadline,
          err |-> ctx.err, cancel |-> "noop", cancelCalls |-> 0]

\* Deadline and Err() of the context the scope holds.
ScopeDeadline == IF scope.isParent THEN parent.deadline ELSE scope.deadline
ScopeErr == IF scope.isParent THEN parent.err ELSE scope.err

Expire(ctx, t) ==
    IF ctx.err = "" /\ ctx.deadline # NoDeadline /\ ctx.deadline <= t
    THEN [ctx EXCEPT !.err = DeadlineExceeded]
    ELSE ctx

\* A done parent ends its children with its own error.
Inherit(child, par) ==
    IF child.err = "" /\ par.err # "" THEN [child EXCEPT !.err = par.err] ELSE child

\* database/sql checks the context before it starts an operation and when
\* the operation ends: a done context makes the operation fail with
\* ctx.Err() and no rows.
sqlOp(kind, ctxErr) ==
    IF ctxErr # ""
    THEN [kind |-> kind, err |-> ctxErr, rows |-> FALSE, tx |-> FALSE]
    ELSE [kind |-> kind, err |-> "", rows |-> kind = "query", tx |-> kind = "begin"]

BeginTx_background(ctxErr) ==
    LET r == sqlOp("begin", "")
    IN  IF r.err # ""
        THEN [kind |-> "begin", err |-> Wrap("beginning transaction", r.err), rows |-> FALSE, tx |-> FALSE]
        ELSE [kind |-> "begin", err |-> NoErr, rows |-> FALSE, tx |-> TRUE]

\* DB.BeginTx(ctx): db.DB.BeginTx(ctx, nil), its error wrapped.
BeginTx(ctxErr) ==
    LET r == sqlOp("begin", ctxErr)
    IN  IF r.err # ""
        THEN [kind |-> "begin", err |-> Wrap("beginning transaction", r.err), rows |-> FALSE, tx |-> FALSE]
        ELSE [kind |-> "begin", err |-> NoErr, rows |-> FALSE, tx |-> TRUE]

\* QueryContext and ExecContext are the embedded sql.DB's own methods.
Issue(kind, ctxErr) ==
    IF kind = "begin" THEN BeginTx(ctxErr)
    ELSE LET r == sqlOp(kind, ctxErr)
         IN  [kind |-> kind, err |-> IF r.err = "" THEN NoErr ELSE Wrap("", r.err),
              rows |-> r.rows, tx |-> FALSE]

OpKinds == {"query", "exec", "begin"}

NoOp == [phase |-> "none"]

WithContextCall(timeout) ==
    /\ op.phase # "running"
    /\ scope' = WithContext(parent, timeout, now)
    /\ op' = NoOp
    /\ UNCHANGED <<now, parent>>
    /\ UNCHANGED <<refVars, vecVars, cfgVars, dsnVars, openVars, migVars, sqlVars>>

\* The caller invokes the cancel function WithContext returned.
CancelCall ==
    /\ scope # NoCall
    /\ scope.cancelCalls < MaxCancelCalls
    /\ scope' = [scope EXCEPT !.cancelCalls = @ + 1,
                              !.err = IF scope.cancel = "cancel" /\ scope.err = ""
                                      THEN Canceled ELSE @]
    /\ UNCHANGED <<now, parent, op>>
    /\ UNCHANGED <<refVars, vecVars, cfgVars, dsnVars, openVars, migVars, sqlVars>>

\* The owner of the parent context cancels it.
CancelParent ==
    /\ parent.kind # "background"
    /\ ~parent.cancelCalled
    /\ LET par == [parent EXCEPT !.cancelCalled = TRUE,
                                 !.err = IF parent.err = "" THEN Canceled ELSE @]
       IN  /\ parent' = par
           /\ scope' = IF scope = NoCall \/ scope.isParent THEN scope ELSE Inherit(scope, par)
    /\ UNCHANGED <<now, op>>
    /\ UNCHANGED <<refVars, vecVars, cfgVars, dsnVars, openVars, migVars, sqlVars>>

\* Time passes; contexts whose deadline is reached are done.
TickNow ==
    /\ now < MaxNow
    /\ now' = now + 1
    /\ LET par == Expire(parent, now + 1)
       IN  /\ parent' = par
           /\ scope' = IF scope = NoCall \/ scope.isParent THEN scope
                       ELSE Inherit(Expire(scope, now + 1), par)
    /\ UNCHANGED op
    /\ UNCHANGED <<refVars, vecVars, cfgVars, dsnVars, openVars, migVars, sqlVars>>

\* An operation is issued through the scope's context: it fails at once when
\* the context is done, otherwise it is in flight.
OpStart(kind) ==
    /\ scope # NoCall
    /\ op.phase # "running"
    /\ op' = IF ScopeErr # ""
             THEN [phase |-> "done", res |-> Issue(kind, ScopeErr), started |-> now, ended |-> now,
                   elapsed |-> ScopeDeadline # NoDeadline /\ ScopeDeadline <= now,
                   ctxErr |-> ScopeErr]
             ELSE [phase |-> "running", res |-> Issue(kind, ""), started |-> now, ended |-> 0,
                   elapsed |-> FALSE, ctxErr |-> ""]
    /\ UNCHANGED <<now, parent, scope>>
    /\ UNCHANGED <<refVars, vecVars, cfgVars, dsnVars, openVars, migVars, sqlVars>>

\* The operation in flight returns.
OpFinish ==
    /\ op.phase = "running"
    /\ op' = [op EXCEPT !.phase = "done", !.res = Issue(op.res.kind, ScopeErr), !.ended = now,
                        !.elapsed = ScopeDeadline # NoDeadline /\ ScopeDeadline <= now,
                        !.ctxErr = ScopeErr]
    /\ UNCHANGED <<now, parent, scope>>
    /\ UNCHANGED <<refVars, vecVars, cfgVars, dsnVars, openVars, migVars, sqlVars>>

(***************************************************************************)
(* Transactions through the pooled handle                                  *)
(***************************************************************************)
Workers == {"w1", "w2"}

NoTx == [open |-> FALSE, conn |-> 0, writes |-> {}]
NoRead == [done |-> FALSE]

\* Nothing was recorded of a caller that follows the README's pattern.
NoEnd == [done |-> FALSE]

\* The configurations the workers' program opens its handle with: in memory
\* or on the file "d", no auth token, no pragmas.
TxConfigs ==
    {cfg \in Configs : /\ cfg.Path \in {Memory, <<"d">>}
                       /\ cfg.AuthToken = <<>>
                       /\ cfg.Pragmas.isNil}

DefaultTxConfig ==
    CHOOSE cfg \in TxConfigs : cfg.Path = Memory /\ cfg.MaxOpenConns = 5

NewHist(cfg) ==
    [cfg |-> cfg, committed |-> {}, commits |-> 0, rolled |-> {}, nextRow |-> 1,
     closed |-> FALSE, atClose |-> {}, read |-> NoRead, last |-> NoEnd]

\* What the engine opens for a dsn: a private in-memory database for every
\* connection, or the one file the path names.
TargetOf_memory(dsn) == "memory"

TargetOf(dsn) ==
    LET rest == IF HasPrefix(dsn, FilePrefix)
                THEN SubSeq(dsn, Len(FilePrefix) + 1, Len(dsn)) ELSE dsn
    IN  IF HasPrefix(rest, Memory) THEN "memory" ELSE "file"

Target == TargetOf(opened.arg.dsn)

\* The handle Open returned is in use.
Usable == opened # NoCall /\ opened.ret.handle /\ ~opened.handle.closed

\* The database connection c works on.
Content(c) == IF Target = "memory" THEN opened.handle.conns[c].mem ELSE store

\* Another transaction holds the write lock of the database of connection c.
Locked(w, c) ==
    \E v \in Workers \ {w} :
        /\ txs[v].open
        /\ txs[v].writes # {}
        /\ Target = "file" \/ txs[v].conn = c

\* Connection c of the handle now holds database content db, and is given back.
PutWith(h, c, db) ==
    Put([h EXCEPT !.conns[c].mem = IF Target = "memory" THEN db ELSE @], c)

\* db.ExecContext(ctx, "CREATE TABLE ...") on a connection of the pool.
CreateTable(c) ==
    /\ Usable
    /\ c \in Free(opened.handle)
    /\ LET ok == ~Content(c).table /\ ~Locked("", c)
           db == IF ok THEN [Content(c) EXCEPT !.table = TRUE] ELSE Content(c)
       IN  /\ opened' = [opened EXCEPT !.handle = PutWith(Take(opened.handle, c), c, db)]
           /\ store' = IF Target = "file" THEN db ELSE store
    /\ UNCHANGED <<txs, hist>>
    /\ UNCHANGED <<refVars, vecVars, cfgVars, dsnVars, migVars, ctxVars>>

\* DB.BeginTx(ctx) by worker w; the transaction keeps connection c.
BeginTxCall(w, ctxErr, c) ==
    /\ Usable
    /\ ~txs[w].open
    /\ c \in Free(opened.handle)
    /\ IF BeginTx(ctxErr).tx
       THEN /\ txs' = [txs EXCEPT ![w] = [open |-> TRUE, conn |-> c, writes |-> {}]]
            /\ opened' = [opened EXCEPT !.handle = Take(opened.handle, c)]
       ELSE UNCHANGED <<txs, opened>>
    /\ UNCHANGED <<store, hist>>
    /\ UNCHANGED <<refVars, vecVars, cfgVars, dsnVars, migVars, ctxVars>>

\* tx.ExecContext(ctx, "INSERT ...") by worker w: one new row, written when
\* the table exists and no other transaction holds the write lock.
Insert(w) ==
    /\ txs[w].open
    /\ txs[w].writes = {}
    /\ hist.nextRow <= MaxRows
    /\ Content(txs[w].conn).table
    /\ ~Locked(w, txs[w].conn)
    /\ txs' = [txs EXCEPT ![w].writes = {hist.nextRow}]
    /\ hist' = [hist EXCEPT !.nextRow = @ + 1]
    /\ UNCHANGED <<store, opened>>
    /\ UNCHANGED <<refVars, vecVars, cfgVars, dsnVars, migVars, ctxVars>>

\* sql.Tx.Commit and sql.Tx.Rollback: the engine applies the writes of a
\* commit that succeeds and drops them otherwise.
sqlCommit(drv) ==
    [err |-> IF drv = "ok" THEN "" ELSE "database is locked", applied |-> drv = "ok"]

sqlRollback == [err |-> "", applied |-> FALSE]

ErrTxDone == "sql: transaction has already been committed or rolled back"

sqlTxEnd_noDoneCheck(done, r) == r

\* sql.Tx is done after its first Commit or Rollback: every later one
\* returns ErrTxDone and reaches no connection.
sqlTxEnd(done, r) == IF done THEN [err |-> ErrTxDone, applied |-> FALSE] ELSE r

Commit_swallowsError(done, drv) ==
    LET r == sqlTxEnd(done, sqlCommit(drv))
    IN  [err |-> NoErr, applied |-> r.applied]

\* Transaction.Commit(): tx.Tx.Commit(), its error wrapped.
Commit(done, drv) ==
    LET r == sqlTxEnd(done, sqlCommit(drv))
    IN  [err |-> IF r.err # "" THEN Wrap("committing transaction", r.err) ELSE NoErr,
         applied |-> r.applied]

Rollback_commits(done) ==
    LET r == sqlTxEnd(done, sqlCommit("ok"))
    IN  [err |-> IF r.err # "" THEN Wrap("rolling back transaction", r.err) ELSE NoErr,
         applied |-> r.applied]

\* Transaction.Rollback(): tx.Tx.Rollback(), its error wrapped.
Rollback(done) ==
    LET r == sqlTxEnd(done, sqlRollback)
    IN  [err |-> IF r.err # "" THEN Wrap("rolling back transaction", r.err) ELSE NoErr,
         applied |-> r.applied]

\* The transaction of worker w ends with result res; its connection goes
\* back to the pool.
EndTx(w, res, committing) ==
    LET c == txs[w].conn
        db == IF res.applied THEN [Content(c) EXCEPT !.rows = @ \cup txs[w].writes]
              ELSE Content(c)
        success == committing /\ res.err = NoErr
    IN  /\ txs[w].open
        /\ opened' = [opened EXCEPT !.handle = PutWith(opened.handle, c, db)]
        /\ store' = IF Target = "file" THEN db ELSE store
        /\ txs' = [txs EXCEPT ![w] = NoTx]
        /\ hist' = [hist EXCEPT
                      !.committed = IF success THEN @ \cup txs[w].writes ELSE @,
                      !.commits = IF success /\ txs[w].writes # {} THEN @ + 1 ELSE @,
                      !.rolled = IF success THEN @ ELSE @ \cup txs[w].writes]
        /\ UNCHANGED <<refVars, vecVars, cfgVars, dsnVars, migVars, ctxVars>>

CommitCall(w, drv) == EndTx(w, Commit(FALSE, drv), TRUE)

RollbackCall(w) == EndTx(w, Rollback(FALSE), FALSE)

\* One call of Commit or Rollback on a Transaction, and what database/sql
\* raised inside it.
TxEnd(kind, done, drv) ==
    IF kind = "commit"
    THEN [op |-> kind, err |-> Commit(done, drv).err, applied |-> Commit(done, drv).applied,
          raised |-> sqlTxEnd(done, sqlCommit(drv)).err]
    ELSE [op |-> kind, err |-> Rollback(done).err, applied |-> Rollback(done).applied,
          raised |-> sqlTxEnd(done, sqlRollback).err]

EndKinds == {"commit", "rollback"}

\* A caller follows the pattern of the README on connection c: BeginTx,
\* `defer tx.Rollback()`, one INSERT, tx.Commit(); more generally it ends the
\* transaction with `first` and calls `second` on it afterwards.  The caller
\* keeps every error it is returned.
Transact(c, ctxErr, drv, first, second) ==
    /\ Usable
    /\ c \in Free(opened.handle)
    /\ hist.nextRow <= MaxRows
    /\ LET begin == BeginTx(ctxErr)
           writes == IF begin.tx /\ Content(c).table THEN {hist.nextRow} ELSE {}
           one == TxEnd(first, FALSE, drv)
           two == TxEnd(second, TRUE, drv)
           db == IF begin.tx /\ (one.applied \/ two.applied)
                 THEN [Content(c) EXCEPT !.rows = @ \cup writes] ELSE Content(c)
           success == begin.tx /\ first = "commit" /\ one.err = NoErr
       IN  /\ opened' = [opened EXCEPT !.handle = PutWith(Take(opened.handle, c), c, db)]
           /\ store' = IF Target = "file" THEN db ELSE store
           /\ hist' = [hist EXCEPT
                  !.nextRow = IF writes # {} THEN @ + 1 ELSE @,
                  !.committed = IF success THEN @ \cup writes ELSE @,
                  !.commits = IF success /\ writes # {} THEN @ + 1 ELSE @,
                  !.rolled = IF success THEN @ ELSE @ \cup writes,
                  !.last = [done |-> TRUE, began |-> begin.tx, writes |-> writes,
                            begin |-> [err |-> begin.err, raised |-> sqlOp("begin", ctxErr).err],
                            first |-> one, second |-> two]]
    /\ UNCHANGED txs
    /\ UNCHANGED <<refVars, vecVars, cfgVars, dsnVars, migVars, ctxVars>>

\* db.QueryContext(ctx, "SELECT ...") outside any transaction, on a
\* connection of the pool.
ReadCall(c) ==
    /\ Usable
    /\ c \in Free(opened.handle)
    /\ hist' = [hist EXCEPT !.read =
                   [done |-> TRUE, ok |-> Content(c).table, rows |-> Content(c).rows,
                    committed |-> hist.committed, commits |-> hist.commits,
                    afterClose |-> hist.closed,
                    running |-> \E w \in Workers : txs[w].open]]
    /\ opened' = [opened EXCEPT !.handle = PutWith(Take(opened.handle, c), c, Content(c))]
    /\ UNCHANGED <<store, txs>>
    /\ UNCHANGED <<refVars, vecVars, cfgVars, dsnVars, migVars, ctxVars>>

(***************************************************************************)
(* Vectors: DeserializeFloat32 and the serialisation it reads             *)
(***************************************************************************)
\* A uint32 is kept as its two 16-bit halves.
\* binary.LittleEndian.Uint32: the first byte is the least significant.
LittleEndianUint32(b) == [lo |-> b[1] + 256 * b[2], hi |-> b[3] + 256 * b[4]]

\* binary.LittleEndian.PutUint32
LittleEndianPutUint32(u) == <<u.lo % 256, u.lo \div 256, u.hi % 256, u.hi \div 256>>

\* math.Float32frombits: sign bit, 8 exponent bits, 23 fraction bits.
Float32frombits(u) ==
    [sign |-> u.hi \div 32768, exp |-> (u.hi % 32768) \div 128,
     frac |-> (u.hi % 128) * 65536 + u.lo]

\* math.Float32bits
Float32bits(f) ==
    [lo |-> f.frac % 65536, hi |-> f.sign * 32768 + f.exp * 128 + f.frac \div 65536]

\* Vectors of 0, 1.0, -2.5, a quiet NaN and the smallest denormal.
Vectors ==
    LET floats == { [sign |-> 0, exp |-> 0, frac |-> 0],
                    [sign |-> 0, exp |-> 127, frac |-> 0],
                    [sign |-> 1, exp |-> 128, frac |-> 2097152],
                    [sign |-> 0, exp |-> 255, frac |-> 4194304],
                    [sign |-> 0, exp |-> 0, frac |-> 1] }
    IN  UNION {[1..n -> floats] : n \in 0..MaxVector}

\* Blobs read from elsewhere, of every length: their bytes are enough to
\* spell 0, 1.0 and the smallest denormal.
Blobs == UNION {[1..n -> {0, 1, 63, 128}] : n \in 0..MaxBytes}

\* sqlite_vec.SerializeFloat32: binary.Write(buf, binary.LittleEndian, vector).
RECURSIVE SerializeFloat32(_)
SerializeFloat32(vector) ==
    IF vector = <<>> THEN <<>>
    ELSE LittleEndianPutUint32(Float32bits(Head(vector))) \o SerializeFloat32(Tail(vector))

DeserializeFloat32_bigEndian(data) ==
    IF Len(data) % 4 # 0
    THEN [vector |-> <<>>, isNil |-> TRUE, err |-> "invalid data length: must be a multiple of 4"]
    ELSE LET count == Len(data) \div 4
         IN  [vector |-> [i \in 1..count |->
                             Float32frombits([lo |-> data[4 * i] + 256 * data[4 * i - 1],
                                              hi |-> data[4 * i - 2] + 256 * data[4 * i - 3]])],
              isNil |-> FALSE, err |-> ""]

\* DeserializeFloat32: binary.Read fills the count elements from the 4 * count
\* bytes, so its error branch is never taken.
DeserializeFloat32(data) ==
    IF Len(data) % 4 # 0
    THEN [vector |-> <<>>, isNil |-> TRUE, err |-> "invalid data length: must be a multiple of 4"]
    ELSE LET count == Len(data) \div 4
         IN  [vector |-> [i \in 1..count |->
                             Float32frombits(LittleEndianUint32(SubSeq(data, 4 * i - 3, 4 * i)))],
              isNil |-> FALSE, err |-> ""]

NoBlob ==
    [from |-> "none", vec |-> <<>>, blob |-> <<>>, called |-> FALSE,
     ret |-> [vector |-> <<>>, isNil |-> TRUE, err |-> "not called"]]

\* A vector is serialised and stored as a blob.
SerializeCall(vector) ==
    /\ codec.from = "none"
    /\ codec' = [from |-> "vector", vec |-> vector, blob |-> SerializeFloat32(vector),
                 called |-> FALSE, ret |-> NoBlob.ret]
    /\ UNCHANGED <<refVars, cfgVars, dsnVars, openVars, migVars, ctxVars, sqlVars>>

\* A blob column that holds any bytes is read.
ScanBlob(data) ==
    /\ codec.from = "none"
    /\ codec' = [from |-> "bytes", vec |-> <<>>, blob |-> data, called |-> FALSE, ret |-> NoBlob.ret]
    /\ UNCHANGED <<refVars, cfgVars, dsnVars, openVars, migVars, ctxVars, sqlVars>>

\* vec, err := DeserializeFloat32(blob)
DeserializeCall ==
    /\ codec.from # "none"
    /\ ~codec.called
    /\ codec' = [codec EXCEPT !.called = TRUE, !.ret = DeserializeFloat32(codec.blob)]
    /\ UNCHANGED <<refVars, cfgVars, dsnVars, openVars, migVars, ctxVars, sqlVars>>

(***************************************************************************)
(* Pragma maps as references: what a caller shares when it holds Configs  *)
(***************************************************************************)
DefaultPragmasIn_shared(h) ==
    IF Len(h) = 0 THEN [heap |-> Append(h, DefaultPragmas.kv), ref |-> 1]
    ELSE [heap |-> h, ref |-> 1]

\* DefaultPragmas() called with the maps of h allocated: `return Pragmas{...}`
\* allocates a map no earlier reference points to.
DefaultPragmasIn(h) == [heap |-> Append(h, DefaultPragmas.kv), ref |-> Len(h) + 1]

\* DefaultConfig() called with the maps of h allocated.
DefaultConfigIn(h) ==
    LET p == DefaultPragmasIn(h)
    IN  [heap |-> p.heap, cfg |-> [DefaultConfig EXCEPT !.Pragmas = p.ref]]

\* The Config as its reader sees it: the Pragmas field followed to its map.
Deref(h, cfg) == [cfg EXCEPT !.Pragmas = [isNil |-> FALSE, kv |-> h[@]]]

\* The pragmas a caller adds or overrides: busy_timeout and journal_mode.
CallerPragmas ==
    { <<<<"b", "u", "s", "y", "_", "t", "i", "m", "e", "o", "u", "t">>, <<"5", "0", "0", "0">>>>,
      <<<<"j", "o", "u", "r", "n", "a", "l", "_", "m", "o", "d", "e">>,
        <<"D", "E", "L", "E", "T", "E">>>> }

\* Two of the orders in which a range over the keys K may visit them.
RECURSIVE SomeOrder(_)
SomeOrder(K) ==
    IF K = {} THEN <<>>
    ELSE LET k == CHOOSE x \in K : TRUE IN <<k>> \o SomeOrder(K \ {k})

HeldOrders(i) ==
    LET o == SomeOrder(DOMAIN heap[held[i].Pragmas])
    IN  {o, [n \in 1..Len(o) |-> o[Len(o) + 1 - n]]}

\* cfg := DefaultConfig()
ObtainConfig ==
    /\ Len(held) < MaxHeld
    /\ heap' = DefaultConfigIn(heap).heap
    /\ held' = Append(held, DefaultConfigIn(heap).cfg)
    /\ UNCHANGED <<vecVars, cfgVars, dsnVars, openVars, migVars, ctxVars, sqlVars>>

\* cfg.Pragmas[key] = value on the i-th Config held
SetPragma(i, key, value) ==
    /\ i \in 1..Len(held)
    /\ heap' = [heap EXCEPT ![held[i].Pragmas] =
                    [k \in DOMAIN @ \cup {key} |-> IF k = key THEN value ELSE @[k]]]
    /\ UNCHANGED held
    /\ UNCHANGED <<vecVars, cfgVars, dsnVars, openVars, migVars, ctxVars, sqlVars>>

\* Open(cfg) with the i-th Config held: the Config is passed by value, its
\* pragma map by reference, and Open only ranges over the map.
OpenHeld(i, order, drv) ==
    /\ i \in 1..Len(held)
    /\ opened = NoCall
    /\ opened' = Open(Deref(heap, held[i]), order, drv)
    /\ UNCHANGED <<heap, held>>
    /\ UNCHANGED <<vecVars, cfgVars, dsnVars, migVars, ctxVars, sqlVars>>

\* formatDSN(cfg.Path, cfg.Pragmas) with the i-th Config held
FormatHeld(i, order) ==
    /\ i \in 1..Len(held)
    /\ FormatCall(held[i].Path, Deref(heap, held[i]).Pragmas, order)

(***************************************************************************)
(* Claims about formatDSN (checked under SpecDSN)                          *)
(***************************************************************************)
NonEmptyCall == dsnIn # NoCall /\ DOMAIN dsnIn.pragmas.kv # {}

EmptyCall(in) == in # NoCall /\ DOMAIN in.pragmas.kv = {}

\* The separator the claim C1 expects between the path and the pragmas.
ExpectedSeparator(path) == IF Contains(path, "?") THEN <<"&">> ELSE <<"?">>

\* C1: for a non-empty pragma set the pragmas are joined to the path with
\* '&' when the path already contains a '?' and with '?' otherwise, so the
\* result holds no '?' beyond those of the path plus at most one, the latter
\* only when the path had none.
C1_SeparatorFollowsPath ==
    NonEmptyCall =>
        /\ \E order \in RangeOrders(dsnIn.pragmas) :
              dsnOut = dsnIn.path \o ExpectedSeparator(dsnIn.path) \o
                  Join([i \in 1..Len(order) |->
                           order[i] \o <<"=">> \o dsnIn.pragmas.kv[order[i]]], <<"&">>)
        /\ Count(dsnOut, "?") <= 1 \/ Count(dsnOut, "?") = Count(dsnIn.path, "?")

\* C2: with an empty pragma set (a nil map or an empty map) formatDSN
\* returns the path unchanged.
C2_EmptyPragmasKeepPath ==
    /\ EmptyCall(dsnIn) => dsnOut = dsnIn.path
    /\ EmptyCall(prevIn) => prevOut = prevIn.path

\* C2 witness: the same non-empty path was formatted with a nil map and then
\* with an empty map, and came back unchanged both times.
C2_Witness ==
    /\ EmptyCall(prevIn) /\ prevIn.pragmas.isNil
    /\ EmptyCall(dsnIn) /\ ~dsnIn.pragmas.isNil
    /\ dsnIn.path = prevIn.path /\ Len(dsnIn.path) > 0
    /\ dsnOut = dsnIn.path /\ prevOut = dsnIn.path

\* C3: two calls of formatDSN with the same path and the same pragma set
\* return the identical string.
C3_SameInputSameOutput ==
    (dsnIn # NoCall /\ prevIn = dsnIn) => dsnOut = prevOut


(***************************************************************************)
(* Claims about Open (checked under SpecOpen)                              *)
(***************************************************************************)
Created == opened # NoCall /\ opened.handle # NoHandle

IsRemotePath(path) == HasPrefix(path, LibsqlPrefix)

\* C4: in every Open variant, when Ping fails after the handle was created,
\* Open has closed that handle when it returns, and returns a nil handle
\* with an error; no Open returns an error with a created handle left open.
C4_FailedOpenClosesHandle ==
    (Created /\ opened.ret.err # "") =>
        /\ opened.handle.closed
        /\ ~opened.ret.handle

\* C5: libsql.Open hands a Path that starts with "libsql://" to the driver
\* as that remote URL, not rewritten into a "file:" path.
C5_LibsqlOpenKeepsRemoteURL ==
    (opened # NoCall /\ opened.variant = "libsql" /\ IsRemotePath(opened.cfg.Path)) =>
        /\ ~HasPrefix(opened.arg.dsn, FilePrefix)
        /\ HasPrefix(opened.arg.dsn, opened.cfg.Path)

\* C6: database.Open takes the remote branch exactly when Path starts with
\* "libsql://"; on the remote branch the connector gets the Path itself
\* (no pragmas appended) and the auth token as an option whenever the token
\* is non-empty; on the local branch no option carries the auth token.
C6_RemoteExactlyByPrefix ==
    (opened # NoCall /\ opened.variant = "database") =>
        LET cfg == opened.cfg
            arg == opened.arg
        IN  /\ arg.branch = "remote" <=> IsRemotePath(cfg.Path)
            /\ IsRemotePath(cfg.Path) =>
                  /\ arg.dsn = cfg.Path
                  /\ cfg.AuthToken # <<>> => arg.opts = <<[authToken |-> cfg.AuthToken]>>
                  /\ cfg.AuthToken = <<>> => arg.opts = <<>>
            /\ ~IsRemotePath(cfg.Path) =>
                  \A i \in 1..Len(arg.opts) : "authToken" \notin DOMAIN arg.opts[i]

\* C6 witness: database.Open returned a handle for a remote Path with a
\* token and a non-empty pragma set; the connector got the bare URL and the
\* token.
C6_Witness ==
    /\ opened # NoCall /\ opened.variant = "database" /\ opened.ret.handle
    /\ IsRemotePath(opened.cfg.Path)
    /\ opened.cfg.AuthToken # <<>>
    /\ DOMAIN opened.cfg.Pragmas.kv # {}
    /\ opened.arg.dsn = opened.cfg.Path
    /\ opened.arg.opts = <<[authToken |-> opened.cfg.AuthToken]>>


(***************************************************************************)
(* Claims about the migrate command (checked under SpecMig)                *)
(***************************************************************************)
Ran(cmd) == last # NoCall /\ last.cmd = cmd

ConnFailed == "Failed to connect to database"

\* C7: from at-version(N, clean) with two or more applied migrations, a
\* successful 'down' reverts only migration N: the pointer becomes the
\* version applied immediately before N and the earlier ones stay applied.
C7_DownRevertsOnlyLatest ==
    (Ran("down") /\ last.outcome = "success" /\ ~last.pre.dirty
        /\ Cardinality(last.pre.schema) >= 2) =>
        /\ dbVersion = Max({v \in last.pre.schema : v < last.pre.version})
        /\ schema = last.pre.schema \ {last.pre.version}
        /\ last.attempts = <<last.pre.version>>

PendingBefore == {v \in Versions(last.pre.files) : v > last.pre.version}

\* C8: an 'up' started in a clean state attempts the migrations above the
\* pointer in ascending version order, without skipping or repeating one
\* (the attempts are an initial part of the ascending pending list), and
\* when it reports success it has applied all of them, the pointer is the
\* highest version present and the state is clean.
C8_UpAppliesPendingAscending ==
    (Ran("up") /\ ~last.pre.dirty) =>
        LET pending == Ascending(PendingBefore)
        IN  /\ Len(last.attempts) <= Len(pending)
            /\ last.attempts = SubSeq(pending, 1, Len(last.attempts))
            /\ last.outcome = "success" =>
                  /\ last.attempts = pending
                  /\ last.committed = pending
                  /\ Len(pending) > 0
                  /\ dbVersion = Max(Versions(files))
                  /\ ~dbDirty
                  /\ schema = last.pre.schema \cup PendingBefore

\* C8 witness: a successful 'up' that started from an applied version and
\* applied two pending migrations, the lower one first.
C8_Witness ==
    /\ Ran("up") /\ last.outcome = "success"
    /\ last.pre.version >= 1 /\ ~last.pre.dirty
    /\ Len(last.attempts) = 2 /\ last.attempts[1] < last.attempts[2]
    /\ dbVersion = last.attempts[2] /\ ~dbDirty

\* C9 as stated, for a non-empty migration set and two runs that both got
\* to the migrate function: whenever 'up' directly follows 'up', the second
\* run leaves pointer and dirty flag alone and reports "No migration needed".
C9_SecondUpAlwaysNoOp ==
    (Ran("up") /\ last.prev.cmd = "up" /\ Versions(last.pre.files) # {}
        /\ last.msg \notin {ConnFailed, "Failed to create migration instance"}
        /\ last.prev.msg \notin {ConnFailed, "Failed to create migration instance"}) =>
        /\ dbVersion = last.pre.version
        /\ dbDirty = last.pre.dirty
        /\ last.outcome = "nochange"

\* C9 amended: when 'up' directly follows an 'up' that ended with
\* "Migration successful" or "No migration needed", the second run changes
\* neither pointer nor dirty flag nor schema, and unless it fails to connect
\* it returns normally with "No migration needed".
C9_SecondUpAfterCleanUpIsNoOp ==
    (Ran("up") /\ last.prev.cmd = "up" /\ last.prev.outcome \in {"success", "nochange"}) =>
        /\ dbVersion = last.pre.version
        /\ dbDirty = last.pre.dirty
        /\ schema = last.pre.schema
        /\ last.attempts = <<>>
        /\ last.msg # ConnFailed =>
              /\ last.outcome = "nochange"
              /\ last.msg = "No migration needed"

\* C9 witness: the second of two 'up' runs, the first of which applied a
\* migration, ended as a no-op at the version the first one reached.
C9_Witness ==
    /\ Ran("up") /\ last.prev.cmd = "up" /\ last.prev.outcome = "success"
    /\ last.outcome = "nochange"
    /\ dbVersion >= 1 /\ dbVersion = last.pre.version /\ ~dbDirty

\* An 'up' run in which a migration body failed.
FailedUp == Ran("up") /\ Len(last.attempts) > Len(last.committed)

FailedVersion == last.attempts[Len(last.attempts)]

\* What C10 and its amendment share: the failing body's transaction is
\* rolled back and leaves nothing in the schema, the state is dirty, no
\* migration after the failing one was attempted, the run is fatal.
FailedUpRollsBackAndStops ==
    FailedUp =>
        /\ last.rolledBack = <<FailedVersion>>
        /\ FailedVersion \notin schema
        /\ schema = last.pre.schema \cup Range(last.committed)
        /\ dbDirty
        /\ \A v \in Range(last.attempts) : v <= FailedVersion
        /\ last.attempts = last.committed \o <<FailedVersion>>
        /\ last.outcome = "fatal"
        /\ last.msg = "Migration failed"

\* C10 as stated: after a body failed during 'up' the transaction is rolled
\* back, the state is dirty, the run stopped fatally, and the pointer is at
\* the last successfully applied version.
C10_FailedUpKeepsPointerAtLastApplied ==
    /\ FailedUpRollsBackAndStops
    /\ FailedUp =>
          dbVersion = IF Len(last.committed) > 0
                      THEN last.committed[Len(last.committed)]
                      ELSE last.pre.version

\* A 'version' run that directly follows a failed 'up' reports the failing
\* version with dirty=true, unless it cannot connect.
VersionAfterFailedUpReportsDirty ==
    (FailedUp /\ last'.cmd = "version" /\ last'.msg # ConnFailed) =>
        /\ last'.outcome = "reported"
        /\ last'.dirty
        /\ last'.version = FailedVersion

\* C10 amended: as C10, but the pointer is at the version of the migration
\* that failed (marked dirty), not at the last successfully applied one;
\* the next 'version' call that connects reports that version, dirty=true.
C10_FailedUpMarksFailingVersionDirty ==
    /\ [](FailedUpRollsBackAndStops /\ (FailedUp => dbVersion = FailedVersion))
    /\ [][VersionAfterFailedUpReportsDirty]_vars

\* C10 witness: 'version' ran right after an 'up' that had applied one
\* migration and failed on the next, and reported the failing one as dirty.
C10_Witness ==
    /\ Ran("version") /\ last.outcome = "reported" /\ last.dirty
    /\ last.prev.cmd = "up" /\ Len(last.prev.rolledBack) = 1
    /\ last.version = last.prev.rolledBack[1]
    /\ dbVersion = last.version /\ dbDirty
    /\ schema # {} /\ dbVersion \notin schema


Statements(body) == SelectSeq(body, LAMBDA line : ~HasPrefix(line, <<"-", "-">>))

MigrationsDirPrefix == <<"d", "b", "/", "m", "i", "g", "r", "a", "t", "i", "o", "n", "s", "/">>

\* The two file names the claim C12 gives for time t and a name.
ExpectedUpFile(t, name) ==
    MigrationsDirPrefix \o Itoa(t) \o <<"_", name, ".", "u", "p", ".", "s", "q", "l">>
ExpectedDownFile(t, name) ==
    MigrationsDirPrefix \o Itoa(t) \o <<"_", name, ".", "d", "o", "w", "n", ".", "s", "q", "l">>

Created12 == Ran("new") /\ last.outcome = "created"

C13_CreatedVersionsStrictlyIncrease ==
    /\ (Created12 /\ last.prev.cmd = "new" /\ last.prev.outcome = "created") =>
          last.version > last.prev.version
    /\ \A f, g \in files : f # g => f.version # g.version

(***************************************************************************)
(* Claims about WithContext and the operations issued through its scope    *)
(***************************************************************************)
\* The parent is cancelled only when its own cancel function was called.
ParentUncancelled == parent.err = Canceled => parent.cancelCalled

\* C14: WithContext(parent, d) with d > 0 returns a new context whose
\* deadline is at most d after the call, and a cancel function that ends that
\* context; with d <= 0 it returns the parent itself with the parent's
\* deadline unchanged, and a cancel function that, however often it is
\* called, leaves the parent uncancelled.
C14_WithContextScope ==
    scope # NoCall =>
        IF scope.timeout > 0
        THEN /\ ~scope.isParent
             /\ scope.deadline # NoDeadline
             /\ scope.deadline <= scope.at + scope.timeout
             /\ scope.cancelCalls > 0 => scope.err # ""
        ELSE /\ scope.isParent
             /\ scope.deadline = parent.deadline
             /\ ParentUncancelled

C14_Witness ==
    /\ scope # NoCall
    /\ scope.timeout <= 0
    /\ scope.cancelCalls = MaxCancelCalls
    /\ parent.kind = "cancel"
    /\ parent.err = ""
    /\ op.phase = "done"
    /\ op.res.err = NoErr

\* An operation issued through a scope that WithContext gave a deadline
\* returned after that deadline had passed.
ReturnedAfterDeadline == op.phase = "done" /\ op.elapsed /\ scope.timeout > 0

\* C15 as stated: every query, exec or begin that returns after the deadline
\* of its scope has passed returns a deadline-exceeded error and no rows.
C15_ExpiredScopeGivesDeadlineExceeded ==
    ReturnedAfterDeadline =>
        /\ op.res.err.cause = DeadlineExceeded
        /\ ~op.res.rows
        /\ ~op.res.tx

\* C15, amended: every query, exec or begin that returns after the deadline
\* of its scope has passed returns the scope's context error and neither rows
\* nor a transaction: deadline-exceeded, or canceled when the scope or its
\* parent was cancelled before the deadline passed; it never succeeds.
C15_ExpiredScopeGivesContextError ==
    ReturnedAfterDeadline =>
        /\ op.res.err # NoErr
        /\ op.res.err.cause \in {DeadlineExceeded, Canceled}
        /\ op.res.err.cause = Canceled => scope.cancelCalls > 0 \/ parent.cancelCalled
        /\ ~op.res.rows
        /\ ~op.res.tx

C15_Witness ==
    /\ ReturnedAfterDeadline
    /\ op.res.kind = "begin"
    /\ op.started < op.ended
    /\ scope.timeout > 0
    /\ op.res.err = Wrap("beginning transaction", DeadlineExceeded)

(***************************************************************************)
(* Claims about the pool of a handle                                       *)
(***************************************************************************)
\* Open returned a handle and the caller closed it.
OpenedThenClosed ==
    /\ opened # NoCall
    /\ opened.ret.handle
    /\ opened.closeRet # NotCalled

ReadDone == hist.read.done /\ hist.read.ok /\ ~hist.read.afterClose

OnFile == hist.cfg.Path # Memory

\* No row written by a transaction that is open or was rolled back is in
\* the latest read.
NoUncommittedRead ==
    hist.read.done =>
        /\ hist.read.rows \cap hist.rolled = {}
        /\ \A w \in Workers : hist.read.rows \cap txs[w].writes = {}

\* C16 as stated: rows written in a transaction that is rolled back are
\* never read by anyone else, while it is open or afterwards, and a read
\* returns exactly the rows of the committed transactions.
C16_ReadReturnsExactlyCommitted ==
    /\ NoUncommittedRead
    /\ ReadDone => hist.read.rows = hist.read.committed

\* C16, amended: rows written in a transaction that is rolled back are never
\* read by anyone else, while it is open or afterwards; through a handle
\* opened on a file path a read returns exactly the rows of the committed
\* transactions.
C16_RolledBackNeverRead ==
    /\ NoUncommittedRead
    /\ ReadDone /\ OnFile => hist.read.rows = hist.read.committed

C16_Witness ==
    /\ ReadDone
    /\ OnFile
    /\ hist.rolled # {}
    /\ hist.read.committed # {}
    /\ hist.read.rows = hist.read.committed
    /\ hist.read.running

\* Every worker has finished when the latest read was made.
AllFinished == ReadDone /\ ~hist.read.running

\* C17 as stated: when the concurrent workers have finished, the table holds
\* as many rows as there were transactions whose Commit returned success.
C17_RowCountEqualsCommits ==
    AllFinished => Cardinality(hist.read.rows) = hist.read.commits

\* C17, amended: through a handle opened on a file path, when the concurrent
\* workers have finished, the table holds as many rows as there were
\* transactions whose Commit returned success.
C17_RowCountEqualsCommitsOnFile ==
    AllFinished /\ OnFile => Cardinality(hist.read.rows) = hist.read.commits

\* One transaction committed, the other was rolled back or its commit failed.
C17_Witness ==
    /\ AllFinished
    /\ OnFile
    /\ hist.read.commits > 0
    /\ hist.rolled # {}
    /\ Cardinality(hist.read.rows) = hist.read.commits

\* C18: rows committed through a handle opened on a file path are read
\* through a handle opened with the same Config after the first was closed.
C18_CommittedRowsSurviveReopen ==
    /\ hist.read.done
    /\ hist.read.afterClose
    /\ hist.read.ok
    /\ OnFile
    => hist.atClose \subseteq hist.read.rows

C18_Witness ==
    /\ hist.read.done
    /\ hist.read.afterClose
    /\ hist.read.ok
    /\ OnFile
    /\ hist.atClose # {}
    /\ hist.atClose \subseteq hist.read.rows

(***************************************************************************)
(* Claims about DefaultConfig                                              *)
(***************************************************************************)
\* The pragmas of a Config as a set of <<key, value>> pairs.
PragmaPairs(pragmas) == {<<k, pragmas.kv[k]>> : k \in DOMAIN pragmas.kv}

\* C20: DefaultConfig returns Path ":memory:", an empty auth token,
\* MaxOpenConns 5, MaxIdleConns 5, ConnMaxLifetime one hour, ConnMaxIdleTime
\* thirty minutes and exactly the six pragmas journal_mode=WAL,
\* synchronous=NORMAL, foreign_keys=ON, cache_size=-2000, temp_store=MEMORY
\* and mmap_size=268435456.
C20_DefaultConfigValues ==
    config # NoCall /\ config.fresh =>
        /\ config.value.Path = <<":", "m", "e", "m", "o", "r", "y", ":">>
        /\ config.value.AuthToken = <<>>
        /\ config.value.MaxOpenConns = 5
        /\ config.value.MaxIdleConns = 5
        /\ config.value.ConnMaxLifetime = 3600
        /\ config.value.ConnMaxIdleTime = 1800
        /\ ~config.value.Pragmas.isNil
        /\ PragmaPairs(config.value.Pragmas) =
             { <<<<"j", "o", "u", "r", "n", "a", "l", "_", "m", "o", "d", "e">>,
                 <<"W", "A", "L">>>>,
               <<<<"s", "y", "n", "c", "h", "r", "o", "n", "o", "u", "s">>,
                 <<"N", "O", "R", "M", "A", "L">>>>,
               <<<<"f", "o", "r", "e", "i", "g", "n", "_", "k", "e", "y", "s">>,
                 <<"O", "N">>>>,
               <<<<"c", "a", "c", "h", "e", "_", "s", "i", "z", "e">>,
                 <<"-", "2", "0", "0", "0">>>>,
               <<<<"t", "e", "m", "p", "_", "s", "t", "o", "r", "e">>,
                 <<"M", "E", "M", "O", "R", "Y">>>>,
               <<<<"m", "m", "a", "p", "_", "s", "i", "z", "e">>,
                 <<"2", "6", "8", "4", "3", "5", "4", "5", "6">>>> }

\* The caller holds what DefaultConfig returned.
C20_Witness ==
    /\ config # NoCall
    /\ config.fresh
    /\ config.value.MaxOpenConns = 5
    /\ Cardinality(DOMAIN config.value.Pragmas.kv) = 6

(***************************************************************************)
(* Claims about the pool settings Open applies                             *)
(***************************************************************************)
HandleReturned == opened # NoCall /\ opened.ret.handle

\* The handle's max open, max lifetime and max idle time are the Config's,
\* and the pool was configured before the ping.
ThreeSettingsAsGiven ==
    /\ opened.handle.pool.MaxOpenConns = opened.cfg.MaxOpenConns
    /\ opened.handle.pool.ConnMaxLifetime = opened.cfg.ConnMaxLifetime
    /\ opened.handle.pool.ConnMaxIdleTime = opened.cfg.ConnMaxIdleTime
    /\ opened.handle.pinged
    /\ opened.handle.poolAtPing = opened.handle.pool

LocalCall == opened # NoCall /\ opened.arg.branch = "local"

EmptyPragmas(pragmas) == DOMAIN pragmas.kv = {}

\* C22: when Open is called with the path ":memory:" and an empty pragma
\* set, every local Open variant hands exactly ":memory:" to the driver.
C22_MemoryPathHandedUnchanged ==
    (LocalCall /\ opened.cfg.Path = Memory /\ EmptyPragmas(opened.cfg.Pragmas)) =>
        opened.arg.dsn = Memory

\* The variants that put "file:" in front of a local path.
PrefixingVariants == {"sqlite3", "sqlite3_fts5", "libsql"}

\* C27: in the local Open variants that prefix paths, for every path and
\* pragma set the connection string handed to the driver equals ":memory:"
\* or starts with "file:", and a path that starts with "file:" is not
\* prefixed a second time.
C27_MemoryOrFilePrefixed ==
    (LocalCall /\ opened.variant \in PrefixingVariants) =>
        /\ opened.arg.dsn = Memory \/ HasPrefix(opened.arg.dsn, FilePrefix)
        /\ HasPrefix(opened.cfg.Path, FilePrefix) =>
              ~HasPrefix(opened.arg.dsn, FilePrefix \o FilePrefix)

(***************************************************************************)
(* Claims about the errors of Open                                         *)
(***************************************************************************)
\* An auth token is given together with a local path.
TokenWithLocalPath ==
    /\ opened # NoCall
    /\ opened.cfg.AuthToken # <<>>
    /\ ~IsRemotePath(opened.cfg.Path)

\* C23: Open rejects a non-empty auth token together with a local file or
\* in-memory path with an error, before any handle is created.
C23_TokenWithLocalPathRejected ==
    TokenWithLocalPath =>
        /\ opened.handle = NoHandle
        /\ ~opened.ret.handle
        /\ opened.ret.err # ""

(***************************************************************************)
(* Claims about the errors of the wrappers and about ended transactions    *)
(***************************************************************************)
\* The words each operation puts in front of the error it returns.
OpName(kind) ==
    IF kind = "begin" THEN "beginning transaction"
    ELSE IF kind = "commit" THEN "committing transaction"
    ELSE "rolling back transaction"

\* The error returned names the operation and carries the error raised.
Carries(err, doing, raised) == err = [doing |-> doing, cause |-> raised]

C28_EndedTransactionIsTerminal ==
    (hist.last.done /\ hist.last.began) =>
        /\ Carries(hist.last.second.err, OpName(hist.last.second.op), ErrTxDone)
        /\ ~hist.last.second.applied
        /\ OnFile =>
              IF hist.last.first.op = "commit" /\ hist.last.first.err = NoErr
              THEN hist.last.writes \subseteq store.rows
              ELSE hist.last.writes \cap store.rows = {}

\* A row was committed and the deferred Rollback ran afterwards.
C28_Witness ==
    /\ hist.last.done
    /\ hist.last.began
    /\ OnFile
    /\ hist.last.first.op = "commit"
    /\ hist.last.first.err = NoErr
    /\ hist.last.second.op = "rollback"
    /\ hist.last.writes # {}
    /\ hist.last.writes \subseteq store.rows
    /\ hist.read.done
    /\ hist.last.writes \subseteq hist.read.rows

(***************************************************************************)
(* Claims about the exit status of the migrate command                     *)
(***************************************************************************)
MigState == <<files, disk, dirExists, dbVersion, dbDirty, schema>>

\* The error the migrate function of a command returns in the current state.
MigrateErr(cmd, failAt) ==
    migrateFn(cmd, files, RunState(dbVersion, dbDirty, schema), failAt).err

Connects(connOk) == connOk /\ SourceOk(files, dirExists)

\* What a run of "up" or "down" owes to its inputs.
RunExit(cmd, connOk, failAt) ==
    /\ ~Connects(connOk) => ExitCode(last') = 1 /\ MigState' = MigState
    /\ Connects(connOk) /\ MigrateErr(cmd, failAt) \notin {"", "ErrNoChange"}
           => ExitCode(last') = 1
    /\ Connects(connOk) /\ MigrateErr(cmd, failAt) = "ErrNoChange"
           => ExitCode(last') = 0 /\ MigState' = MigState
    /\ Connects(connOk) /\ MigrateErr(cmd, failAt) = "" => ExitCode(last') = 0

ElementIsLittleEndian(i) ==
    LET bits == Float32bits(codec.ret.vector[i])
    IN  /\ bits.lo = codec.blob[4 * i - 3] + 256 * codec.blob[4 * i - 2]
        /\ bits.hi = codec.blob[4 * i - 1] + 256 * codec.blob[4 * i]

\* C26: DeserializeFloat32 returns an error and a nil vector exactly when the
\* length of its input is no multiple of 4; otherwise it returns len(data)/4
\* elements, each the little-endian reading of its four bytes, and what it
\* returns for the serialisation of a vector is that vector, element by
\* element in the same order.
C26_DeserializeDecodesLittleEndian ==
    codec.called =>
        /\ codec.ret.err # "" <=> Len(codec.blob) % 4 # 0
        /\ codec.ret.isNil <=> codec.ret.err # ""
        /\ codec.ret.err = "" =>
              /\ Len(codec.ret.vector) = Len(codec.blob) \div 4
              /\ \A i \in 1..Len(codec.ret.vector) : ElementIsLittleEndian(i)
        /\ codec.from = "vector" =>
              /\ codec.ret.err = ""
              /\ Len(codec.ret.vector) = Len(codec.vec)
              /\ \A i \in 1..Len(codec.vec) : codec.ret.vector[i] = codec.vec[i]

\* The serialisation of a vector of two different elements was deserialised.
C26_Witness ==
    /\ codec.called
    /\ codec.from = "vector"
    /\ Len(codec.vec) = 2
    /\ codec.vec[1] # codec.vec[2]
    /\ codec.vec[1].exp = 127

\* A blob whose length is no multiple of 4 was rejected.
C26_WitnessRejected ==
    /\ codec.called
    /\ codec.from = "bytes"
    /\ Len(codec.blob) = 5
    /\ codec.ret.err = "invalid data length: must be a multiple of 4"

(***************************************************************************)
(* Claims about Create and existing migration files (checked under SpecNew)*)
(***************************************************************************)
\* A file that createMigration(name) computes at the current time exists.
Collides(name) ==
    \/ MigrationPath(clock, name, UpSuffix) \in DOMAIN disk
    \/ MigrationPath(clock, name, DownSuffix) \in DOMAIN disk

\* C29: a Create whose computed file name exists already (a second Create
\* with the same name within the same second) is rejected and leaves every
\* existing body as it was.
C29_CreateNeverOverwrites ==
    [][ \A name \in Names, fsErr \in FsOutcomes :
            (Collides(name) /\ createMigration(name, fsErr)) =>
                /\ last'.outcome = "fatal"
                /\ disk' = disk
      ]_vars

(***************************************************************************)
(* Claims about the default pragmas as shared state (checked under SpecRef)*)
(***************************************************************************)
\* The pragmas of the j-th Config held, before and after the step.
PragmasOf(j) == heap[held[j].Pragmas]
PragmasAfter(j) == heap'[held'[j].Pragmas]

\* C30: every DefaultConfig call returns a Config whose pragma map is a new
\* one holding the six defaults, whatever was done to Configs obtained
\* before; adding or overriding a pragma in one Config changes the pragmas
\* of no other Config held; Open and formatDSN change no pragma map.
C30_DefaultPragmasNotShared ==
    [][ /\ ObtainConfig =>
              /\ \A j \in 1..Len(held) :
                    /\ held'[Len(held')].Pragmas # held[j].Pragmas
                    /\ PragmasAfter(j) = PragmasOf(j)
              /\ PragmasAfter(Len(held')) = DefaultPragmas.kv
        /\ \A i \in 1..Len(held), p \in CallerPragmas :
              SetPragma(i, p[1], p[2]) =>
                  /\ PragmasAfter(i)[p[1]] = p[2]
                  /\ \A j \in 1..Len(held) : j # i => PragmasAfter(j) = PragmasOf(j)
        /\ \A i \in 1..Len(held) : \A order \in HeldOrders(i) :
              /\ FormatHeld(i, order) => heap' = heap /\ held' = held
              /\ \A drv \in DriverOutcomes :
                    OpenHeld(i, order, drv) => heap' = heap /\ held' = held
      ]_vars

\* Two Configs are held; the first got busy_timeout and another journal
\* mode before the second was obtained, Open was called with the first, and
\* the second holds the six defaults.
C30_Witness ==
    /\ Len(held) = 2
    /\ \A p \in CallerPragmas :
          p[1] \in DOMAIN heap[held[1].Pragmas] /\ heap[held[1].Pragmas][p[1]] = p[2]
    /\ heap[held[2].Pragmas] = DefaultPragmas.kv
    /\ opened # NoCall
    /\ opened.cfg.Pragmas.kv = heap[held[1].Pragmas]

InitCommon ==
    /\ dsnIn = NoCall
    /\ dsnOut = <<>>
    /\ prevIn = NoCall
    /\ prevOut = <<>>
    /\ opened = NoCall
    /\ files = {}
    /\ disk = <<>>
    /\ dirExists \in BOOLEAN
    /\ clock = 1
    /\ dbVersion = -1
    /\ dbDirty = FALSE
    /\ schema = {}
    /\ last = NoCall
    /\ now = 1
    /\ parent \in Parents
    /\ scope = NoCall
    /\ op = NoOp
    /\ store = NoTable
    /\ config = NoCall
    /\ codec = NoBlob
    /\ heap = <<>>
    /\ held = <<>>
    /\ txs = [w \in Workers |-> NoTx]
    /\ hist \in {NewHist(cfg) : cfg \in TxConfigs}

InitDSN == InitCommon /\ dirExists = FALSE /\ parent = Background /\ hist = NewHist(DefaultTxConfig)

NextDSN ==
    \E path \in Paths, pragmas \in PragmaSets :
        \E order \in RangeOrders(pragmas) : FormatCall(path, pragmas, order)

SpecDSN == InitDSN /\ [][NextDSN]_vars

InitOpen == InitCommon /\ dirExists = FALSE /\ parent = Background /\ hist = NewHist(DefaultTxConfig)

NextOpen ==
    \/ \E cfg \in Configs, drv \in DriverOutcomes :
          \E order \in RangeOrders(cfg.Pragmas) :
              \/ OpenCall(cfg, order, drv)
              \/ OpenCall_sqlite3(cfg, order, drv)
              \/ OpenCall_sqlite3_fts5(cfg, order, drv)
              \/ OpenCall_libsql(cfg, order, drv)
              \/ OpenCall_sqlite(cfg, order, drv)
    \/ CloseCall
    \/ Forget

SpecOpen == InitOpen /\ [][NextOpen]_vars

InitMig == InitCommon /\ parent = Background /\ hist = NewHist(DefaultTxConfig)

NextMig ==
    \/ Tick
    \/ \E name \in Names, fsErr \in FsOutcomes : createMigration(name, fsErr)
    \/ \E connOk \in BOOLEAN, failAt \in 0..MaxTime : CmdUp(connOk, failAt)
    \/ \E connOk \in BOOLEAN, failAt \in 0..MaxTime : CmdDown(connOk, failAt)
    \/ \E connOk \in BOOLEAN : getMigrationVersion(connOk)

SpecMig == InitMig /\ [][NextMig]_vars

InitCtx == InitCommon /\ dirExists = FALSE /\ hist = NewHist(DefaultTxConfig)

NextCtx ==
    \/ \E timeout \in Timeouts : WithContextCall(timeout)
    \/ CancelCall
    \/ CancelParent
    \/ TickNow
    \/ \E kind \in OpKinds : OpStart(kind)
    \/ OpFinish

SpecCtx == InitCtx /\ [][NextCtx]_vars

\* There is no handle in use behind the result of the latest Open call.
Droppable ==
    IF opened = NoCall THEN FALSE
    ELSE IF opened.ret.handle THEN opened.handle.closed
    ELSE TRUE

InitTx == InitCommon /\ dirExists = FALSE /\ parent = Background

\* The handle is closed when its transactions have ended, and dropped when
\* it is closed.
NextTx ==
    \/ \E drv \in DriverOutcomes :
          \E order \in RangeOrders(hist.cfg.Pragmas) : OpenCall(hist.cfg, order, drv)
    \/ (\A w \in Workers : ~txs[w].open) /\ CloseCall
    \/ Droppable /\ Forget
    \/ \E c \in ConnIds : CreateTable(c)
    \/ \E w \in Workers, ctxErr \in {"", DeadlineExceeded}, c \in ConnIds : BeginTxCall(w, ctxErr, c)
    \/ \E w \in Workers : Insert(w)
    \/ \E w \in Workers, drv \in {"ok", "err"} : CommitCall(w, drv)
    \/ \E w \in Workers : RollbackCall(w)
    \/ \E c \in ConnIds : ReadCall(c)

SpecTx == InitTx /\ [][NextTx]_vars

InitCfg == InitCommon /\ dirExists = FALSE /\ parent = Background /\ hist = NewHist(DefaultTxConfig)

\* A caller takes the default Config and changes fields of it.
NextCfg ==
    \/ DefaultConfigCall
    \/ \E path \in Paths : AssignPath(path)
    \/ \E token \in Tokens : AssignAuthToken(token)
    \/ \E q \in PoolSettings : AssignPool(q)
    \/ \E pragmas \in PragmaSets : AssignPragmas(pragmas)

SpecCfg == InitCfg /\ [][NextCfg]_vars

InitEnd == InitCommon /\ dirExists = FALSE /\ parent = Background

\* One caller opens a handle and runs transactions one after the other.
NextEnd ==
    \/ \E drv \in DriverOutcomes :
          \E order \in RangeOrders(hist.cfg.Pragmas) : OpenCall(hist.cfg, order, drv)
    \/ CloseCall
    \/ Droppable /\ Forget
    \/ \E c \in ConnIds : CreateTable(c)
    \/ \E c \in ConnIds, ctxErr \in {"", DeadlineExceeded}, drv \in {"ok", "err"},
           first \in EndKinds, second \in EndKinds : Transact(c, ctxErr, drv, first, second)
    \/ \E c \in ConnIds : ReadCall(c)

SpecEnd == InitEnd /\ [][NextEnd]_vars

\* The migrate command run from main: every command line, one migration name,
\* a failure at no migration or at version 1.
NextMain ==
    \/ Tick
    \/ \E args \in CommandLines : main(args)
    \/ \E fsErr \in FsOutcomes : createMigration("a", fsErr)
    \/ \E connOk \in BOOLEAN, failAt \in {0, 1} : CmdUp(connOk, failAt)
    \/ \E connOk \in BOOLEAN, failAt \in {0, 1} : CmdDown(connOk, failAt)
    \/ \E connOk \in BOOLEAN : getMigrationVersion(connOk)

SpecMain == InitMig /\ [][NextMain]_vars
NextVec ==
    \/ \E vector \in Vectors : SerializeCall(vector)
    \/ \E data \in Blobs : ScanBlob(data)
    \/ DeserializeCall

SpecVec == InitCfg /\ [][NextVec]_vars
\* Migrations of one name are created and written by a developer; no
\* migration is run.
NextNew ==
    \/ Tick
    \/ \E fsErr \in FsOutcomes : createMigration("a", fsErr)
    \/ \E path \in DOMAIN disk : EditMigration(path)

SpecNew == InitMig /\ [][NextNew]_vars
NextRef ==
    \/ ObtainConfig
    \/ \E i \in 1..Len(held), p \in CallerPragmas : SetPragma(i, p[1], p[2])
    \/ \E i \in 1..Len(held), drv \in DriverOutcomes :
          \E order \in HeldOrders(i) : OpenHeld(i, order, drv)
    \/ \E i \in 1..Len(held) : \E order \in HeldOrders(i) : FormatHeld(i, order)
    \/ Forget

SpecRef == InitCfg /\ [][NextRef]_vars
====
